---- MODULE Spec2Model ----
(***************************************************************************)
(* Model of the orchestration core of flask_llm_app (homework2_app):       *)
(*   - assess_message_risk            (flask_app/utils/llm.py)             *)
(*   - handle_ai_chat_request_react   (flask_app/utils/llm.py)             *)
(*   - chat_with_ai                   (flask_app/routes.py)                *)
(*   - handle_ai_chat_request         (flask_app/utils/llm.py)             *)
(*   - process_orchestrator_request   (flask_app/routes.py)                *)
(*   - execute_orchestrator_response  (flask_app/utils/llm.py)             *)
(* and of the embedding service of homework1_app:                          *)
(*   - generate_embedding, generate_query_embedding                        *)
(*                                    (flask_app/utils/embeddings.py)      *)
(* Text is modelled as a sequence of one-character strings, so that        *)
(* lower(), strip(), substring tests and the template regexes are          *)
(* computed on characters.                                                 *)
(***************************************************************************)
EXTENDS Integers, Sequences, FiniteSets, TLC

VARIABLES
    \* ---- one run of handle_ai_chat_request_react ----
    pc,               \* "loop": at the head of the while loop; "done": returned
    message,          \* the local variable `message` (the question passed in)
    observations,     \* list of observation strings (abstracted to records)
    iteration,        \* loop counter
    operation_trace,  \* list of <<action_name, action_input>>
    tools_executed,   \* list of tool names
    ret,              \* the returned dict, NoReturn while running
    llm_calls,        \* history: number of llm_client.send_message calls
    emitted,          \* history: texts passed to process_and_emit_message
    events,           \* history: responses of the run other than plain text
    tool_ok,          \* history: tool executions that did not fail
    final_seen,       \* history: some response carried the Final Answer marker
    last_resp,        \* history: the response handled by the last iteration
    prompt,           \* the local variable `prompt`: what the model was sent
    sent_history,     \* the conversation_history the model was sent with it
    \* ---- one browser session talking to /chat/ai ----
    session,          \* the Flask session: [pending_action |-> NoPending or text]
    orch_runs,        \* history: orchestration runs started, in order
    http_response,    \* the JSON body of the last answer
    requests,         \* history: number of requests handled
    last_req,         \* history: what the last request was and how it was routed
    pending_id,       \* history: identity of the stored PendingAction
    next_id,          \* history: next PendingAction identity
    cancelled,        \* history: identities of cancelled PendingActions
    \* ---- assess_message_risk applied to one input ----
    risk_input,       \* the message passed to assess_message_risk
    risk_result,      \* its result, NoResult before the call
    \* ---- session['chat_history'] under handle_ai_chat_request ----
    max_history,      \* int(os.getenv('GROQ_MAX_CONVERSATION_HISTORY', 1))
    chat_history,     \* session['chat_history']
    conversation,     \* history: every message ever appended, in order
    turns,            \* history: number of calls of handle_ai_chat_request
    chat_result,      \* the result of the last call, NoChatResult before
    chat_emitted,     \* history: responses passed to process_and_emit_message
    \* ---- one plan-execute run: process_orchestrator_request (USE_REACT
    \*      off) and execute_orchestrator_response ----
    plan_pc,          \* "plan", "parse", "loop" or "done"
    orchestrator_response, \* the plan text the Orchestrator role produced
    function_calls,   \* the list (or other value) read from the plan
    calls_read,       \* what the loop body reads from each element
    call_index,       \* number of elements of function_calls handled
    results,          \* the list of sub-results
    plan_trace,       \* operation_trace: "SQL" / "CODE" entries
    LLM_ROLES,        \* the global role table: "defaults" or a stored set
    synthesis_prompt, \* what the synthesis call was given, NoPrompt before
    plan_ret,         \* the returned dict, NoPlanReturn while running
    plan_emitted,     \* history: texts passed to process_and_emit_message
    expert_calls,     \* history: expert model calls <<role, message>>, in order
    db_operations,    \* history: number of execute_database_operation calls
    role_fetches,     \* history: number of db.getLLMRoles() calls
    synthesis_calls,  \* history: number of synthesis model calls
    provider_errors,  \* history: model calls of the run that failed
    call_exceptions,  \* history: exceptions raised inside the loop body
    roles_used,       \* history: the role table each templated call read
    \* ---- one response text read by an iteration of the ReAct loop ----
    raw_response,     \* result["response"]
    parsed,           \* what the iteration reads out of it, NoParse before
    parsed_again,     \* what reading the same text once more gives
    \* ---- one call of generate_embedding / generate_query_embedding
    \*      (homework1_app/flask_app/utils/embeddings.py) ----
    task_type,        \* "retrieval_document" or "retrieval_query"
    embed_text,       \* the argument `text`
    max_retries,      \* the argument `max_retries`
    api_key,          \* whether GEMINI_API_KEY is set
    attempt,          \* the loop variable
    embedding,        \* the value returned, NotReturned while running
    provider_calls,   \* history: number of genai.embed_content calls
    provider_raised,  \* history: the exceptions the provider raised, in order
    sleeps,           \* history: the waits, as <<base, jitter>>
    \* ---- the shared A2AProtocol object of routes.py, the benchmark run
    \*      and the web crawler agent working on it ----
    pending_requests, \* the keys of the dict pending_requests
    message_history,  \* the list message_history
    message_count,    \* number of A2AMessage objects the protocol has built
    bench_pc,         \* "idle", "running", "done" or "failed"
    bench_left,       \* test cases the running benchmark has not run yet
    bench_ids,        \* history: ids send_request gave to this benchmark run
    crawl_pc,         \* "idle" or "store" (inside the loop of _crawl_url)
    crawl_request,    \* the A2AMessage handle_a2a_request was given
    chunks,           \* len(chunks) of the crawl
    chunks_stored,    \* the local chunks_stored, also the loop index i
    documents,        \* the rows of table documents, in insertion order
    rows_before,      \* history: number of rows when the crawl started
    crawl_result      \* the dict _crawl_url returned, NoCrawlResult before

reactVars == <<pc, message, observations, iteration, operation_trace,
               tools_executed, ret, llm_calls, emitted, events, tool_ok,
               final_seen, last_resp, prompt, sent_history>>
chatVars  == <<session, orch_runs, http_response, requests, last_req,
               pending_id, next_id, cancelled>>
riskVars  == <<risk_input, risk_result>>
histVars  == <<max_history, chat_history, conversation, turns, chat_result,
               chat_emitted>>
planVars  == <<plan_pc, orchestrator_response, function_calls, calls_read,
               call_index,
               results, plan_trace, LLM_ROLES, synthesis_prompt, plan_ret,
               plan_emitted, expert_calls, db_operations, role_fetches,
               synthesis_calls, provider_errors, call_exceptions,
               roles_used>>
parseVars == <<raw_response, parsed, parsed_again>>
embedVars == <<task_type, embed_text, max_retries, api_key, attempt, embedding,
               provider_calls, provider_raised, sleeps>>
a2aVars   == <<pending_requests, message_history, message_count, bench_pc,
               bench_left, bench_ids, crawl_pc, crawl_request, chunks,
               chunks_stored, documents, rows_before, crawl_result>>
vars      == <<reactVars, chatVars, riskVars, histVars, planVars, parseVars,
               embedVars, a2aVars>>

\* what each part of the program leaves alone
exceptReact == <<chatVars, riskVars, histVars, planVars, parseVars, embedVars,
                a2aVars>>
exceptChat  == <<reactVars, riskVars, histVars, planVars, parseVars, embedVars,
                a2aVars>>
exceptRisk  == <<reactVars, chatVars, histVars, planVars, parseVars, embedVars,
                a2aVars>>
exceptHist  == <<reactVars, chatVars, riskVars, planVars, parseVars, embedVars,
                a2aVars>>
exceptPlan  == <<reactVars, chatVars, riskVars, turns, parseVars, embedVars,
                a2aVars>>
exceptParse == <<reactVars, chatVars, riskVars, histVars, planVars, embedVars,
                a2aVars>>
exceptEmbed == <<reactVars, chatVars, riskVars, histVars, planVars, parseVars,
                a2aVars>>
exceptA2A   == <<reactVars, chatVars, riskVars, histVars, planVars, parseVars,
                embedVars>>

----------------------------------------------------------------------------
(* Bounds of the model *)

\* responses of one ReAct run that are not the plain no-action text
MaxEvents == 2
\* number of fragments a risk-assessed message is built from
MaxFrags == 2
\* number of /chat/ai requests of one session
MaxRequests == 4
\* number of calls of handle_ai_chat_request in one session
MaxTurns == 3
\* largest configured GROQ_MAX_CONVERSATION_HISTORY
MaxHistory == 3
\* largest max_retries an embedding is asked for with
MaxRetries == 3
\* number of messages sent through one A2AProtocol object
MaxMessages == 3
\* largest number of active test cases of a benchmark run
MaxTests == 2
\* largest number of rows the crawls put into table documents
MaxRows == 2

----------------------------------------------------------------------------
(* Text helpers: Python str.lower, str.strip, `in`, str.swapcase *)

UpperLetters == <<"A","B","C","D","E","F","G","H","I","J","K","L","M","N","O","P","Q","R","S","T","U","V","W","X","Y","Z">>
LowerLetters == <<"a","b","c","d","e","f","g","h","i","j","k","l","m","n","o","p","q","r","s","t","u","v","w","x","y","z">>

LowerChar(c) ==
    IF \E i \in 1..26 : UpperLetters[i] = c
    THEN LowerLetters[CHOOSE i \in 1..26 : UpperLetters[i] = c]
    ELSE c

SwapChar(c) ==
    IF \E i \in 1..26 : UpperLetters[i] = c
    THEN LowerLetters[CHOOSE i \in 1..26 : UpperLetters[i] = c]
    ELSE IF \E i \in 1..26 : LowerLetters[i] = c
         THEN UpperLetters[CHOOSE i \in 1..26 : LowerLetters[i] = c]
         ELSE c

Lower(s) == [i \in 1..Len(s) |-> LowerChar(s[i])]

SwapCase(s) == [i \in 1..Len(s) |-> SwapChar(s[i])]

IsSpace(c) == c \in {" ", "\n", "\t"}

\* s.strip(): drop leading and trailing whitespace
Strip(s) ==
    IF \A i \in 1..Len(s) : IsSpace(s[i])
    THEN <<>>
    ELSE LET first == CHOOSE i \in 1..Len(s) :
                         /\ ~IsSpace(s[i])
                         /\ \A j \in 1..(i-1) : IsSpace(s[j])
             last  == CHOOSE i \in 1..Len(s) :
                         /\ ~IsSpace(s[i])
                         /\ \A j \in (i+1)..Len(s) : IsSpace(s[j])
         IN SubSeq(s, first, last)

\* sub occurs in s starting at position p
OccursAt(s, sub, p) ==
    /\ p >= 1
    /\ p + Len(sub) - 1 <= Len(s)
    /\ \A k \in 1..Len(sub) : s[p + k - 1] = sub[k]

\* Python `sub in s`
Contains(s, sub) == \E p \in 1..(Len(s) + 1) : OccursAt(s, sub, p)

\* the elements of list l that occur in s, in the order of l
RECURSIVE SelectSeqIn(_, _)
SelectSeqIn(l, s) ==
    IF l = <<>> THEN <<>>
    ELSE IF Contains(s, Head(l))
         THEN <<Head(l)>> \o SelectSeqIn(Tail(l), s)
         ELSE SelectSeqIn(Tail(l), s)

----------------------------------------------------------------------------
(* assess_message_risk *)

dangerous_keywords ==
    << <<"d","e","l","e","t","e">>,
       <<"r","e","m","o","v","e">>,
       <<"c","l","e","a","r">>,
       <<"d","r","o","p">>,
       <<"d","e","s","t","r","o","y">>,
       <<"t","r","u","n","c","a","t","e">> >>

message_lower_raw(m) == m

message_lower(m) == Lower(m)

\* found_keywords = [kw for kw in dangerous_keywords if kw in message_lower]
found_keywords(m) == SelectSeqIn(dangerous_keywords, message_lower(m))

assess_message_risk(m) ==
    IF found_keywords(m) # <<>>
    THEN [risk_level |-> "high", explanation |-> "dangerous operations",
          keywords_found |-> found_keywords(m)]
    ELSE [risk_level |-> "low", explanation |-> "appears safe",
          keywords_found |-> <<>>]

----------------------------------------------------------------------------
(* handle_ai_chat_request_react: constants and the validation of answers *)

MAX_ITERATIONS == 10

lit_bracket       == <<"[">>
lit_close         == <<"]">>

\* Each pattern is the list of its literals; consecutive literals are
\* separated by `.*?` in the regex.
template_patterns ==
    << <<<<"[","l","i","s","t"," ","o","f">>, lit_close>>,
       <<lit_bracket, <<"q","u","e","r","y"," ","r","e","s","u","l","t","s">>, lit_close>>,
       <<lit_bracket, <<"n","a","m","e","s">>, lit_close>>,
       <<lit_bracket, <<"c","o","m","p","a","n","i","e","s">>, lit_close>>,
       <<<<"[","h","y","p","e","r","l","i","n","k","]">>>>,
       <<lit_bracket, <<"d","a","t","a">>, lit_close>>,
       <<lit_bracket, <<"i","n","s","t","i","t","u","t","i","o","n","s">>, lit_close>> >>

\* `.` does not match a newline (the patterns are searched without DOTALL)
NoNewline(s, from, to) == \A i \in from..to : s[i] # "\n"

\* literals k..Len(lits) match in s from position pos on, each after a gap
RECURSIVE MatchFrom(_, _, _, _)
MatchFrom(s, lits, k, pos) ==
    IF k > Len(lits) THEN TRUE
    ELSE \E q \in pos..(Len(s) + 1) :
            /\ OccursAt(s, lits[k], q)
            /\ NoNewline(s, pos, q - 1)
            /\ MatchFrom(s, lits, k + 1, q + Len(lits[k]))

\* re.search(pattern, final_answer, re.IGNORECASE)
SearchPattern(pattern, final_answer) ==
    LET text == Lower(final_answer)
    IN \E p \in 1..(Len(text) + 1) :
          /\ OccursAt(text, pattern[1], p)
          /\ MatchFrom(text, pattern, 2, p + Len(pattern[1]))

\* the patterns of template_patterns that the answer matches
MatchedPatterns(final_answer) ==
    {i \in 1..Len(template_patterns) :
        SearchPattern(template_patterns[i], final_answer)}

\* An observation string, abstracted to where it comes from and whether
\* its text reports an error.
Obs(src, err) == [src |-> src, err |-> err]

ObsMustExecuteTool == Obs("validation", TRUE)
ObsNoValidAction   == Obs("parse", TRUE)
ObsUnknownAction_quiet == Obs("unknown_action", FALSE)

ObsUnknownAction   == Obs("unknown_action", TRUE)

\* n copies of x
Repeat(x, n) == [i \in 1..n |-> x]

NoReturn == [returned |-> FALSE, success |-> FALSE, kind |-> "none",
             answer |-> <<>>, trace |-> <<>>, iterations |-> -1]

Return(success, kind, answer, trace, iterations) ==
    [returned |-> TRUE, success |-> success, kind |-> kind,
     answer |-> answer, trace |-> trace, iterations |-> iterations]

----------------------------------------------------------------------------
(* The model's responses and the tools' outcomes *)

fa_plain == <<"M","S","U"," ","f","o","u","n","d">>

FinalAnswers ==
    { fa_plain,
       <<"[","1","]"," ","P","y","t","h","o","n">>,
       <<"[","l","i","s","t"," ","o","f"," ","c","o","m","p","a","n","i","e","s","]">>,
       <<"s","e","e"," ","[","H","y","p","e","r","l","i","n","k","]">>,
       <<"[","L","i","s","t"," ","o","f"," ","q","u","e","r","y"," ","r","e","s","u","l","t","s"," ","n","a","m","e","s"," ","c","o","m","p","a","n","i","e","s"," ","d","a","t","a"," ","i","n","s","t","i","t","u","t","i","o","n","s","]"," ","[","h","y","p","e","r","l","i","n","k","]">> }

\* A response text: whether it holds the Final Answer marker and the text
\* after it, the name after `Action:` ("none" when there is no such line),
\* and what the action input holds.
Response(final, answer, action, input) ==
    [final |-> final, answer |-> answer, action |-> action, input |-> input]

Responses ==
    {Response(FALSE, <<>>, "none", "none")}
    \cup {Response(TRUE, a, "none", "none") : a \in FinalAnswers}
    \cup {Response(TRUE, fa_plain, "sql_query", "sql")}
    \cup {Response(FALSE, <<>>, "semantic_search", "args"),
          Response(FALSE, <<>>, "sql_query", "sql"),
          Response(FALSE, <<>>, "crawl_web", "url"),
          Response(FALSE, <<>>, "crawl_web", "none"),
          Response(FALSE, <<>>, "search_files", "args")}

Outcomes == {"ok", "error"}

\* for each answer the model can give, how many patterns it matches
PatternHits == [a \in FinalAnswers |-> Cardinality(MatchedPatterns(a))]

NoResponse == [final |-> FALSE, action |-> "none", input |-> "none"]

\* what is remembered of a call for which send_message returned
\* success = False
FailedResponse == [final |-> FALSE, action |-> "failed", input |-> "none"]

Seen(r) == [final |-> r.final, action |-> r.action, input |-> r.input]

----------------------------------------------------------------------------
(* handle_ai_chat_request_react: the loop *)

ReactInit ==
    /\ pc = "loop"
    /\ message = "question"
    /\ observations = <<>>
    /\ iteration = 0
    /\ operation_trace = <<>>
    /\ tools_executed = <<>>
    /\ ret = NoReturn
    /\ llm_calls = 0
    /\ emitted = <<>>
    /\ events = 0
    /\ tool_ok = 0
    /\ final_seen = FALSE
    /\ last_resp = NoResponse
    /\ prompt = [question |-> "none", observations |-> <<>>]
    /\ sent_history = <<>>

\* build_react_prompt(message, observations): the text holds the question
\* it is given and, after it, the observations joined in list order
build_react_prompt(q, obs) == [question |-> q, observations |-> obs]

\* llm_client.send_message(prompt, conversation_history=[])
SentHistory_session == chat_history

SentHistory == <<>>

\* while iteration < MAX_ITERATIONS
LoopCondition_inclusive == iteration <= MAX_ITERATIONS

LoopCondition == iteration < MAX_ITERATIONS

\* if not tools_executed
NoToolExecuted_skipped == FALSE

NoToolExecuted == tools_executed = <<>>

\* "Final Answer:" in response_text or "FINAL ANSWER:" in response_text
HasFinalAnswer_ignored(r) == FALSE

HasFinalAnswer(r) == r.final

\* llm_client.send_message returned success and its text is being handled
Received(r) ==
    /\ pc = "loop"
    /\ LoopCondition
    /\ prompt' = build_react_prompt(message, observations)
    /\ sent_history' = SentHistory
    /\ llm_calls' = llm_calls + 1
    /\ last_resp' = Seen(r)
    /\ final_seen' = (final_seen \/ r.final)

\* the response is one of the bounded number that are not plain text
Counted ==
    /\ events < MaxEvents
    /\ events' = events + 1

\* if not llm_result["success"]: return {...}
AfterLLMError_retry == "loop"

AfterLLMError == "done"

\* llm_client.send_message returned success = False
LLMError ==
    /\ pc = "loop"
    /\ LoopCondition
    /\ prompt' = build_react_prompt(message, observations)
    /\ sent_history' = SentHistory
    /\ llm_calls' = llm_calls + 1
    /\ last_resp' = FailedResponse
    /\ ret' = Return(FALSE, "llm_error", <<>>, <<>>, -1)
    /\ pc' = AfterLLMError
    /\ UNCHANGED <<message, observations, iteration, operation_trace,
                   tools_executed, emitted, events, tool_ok, final_seen>>

\* a Final Answer while no tool has been executed: rejected
RejectFinalAnswer(r) ==
    /\ Received(r)
    /\ Counted
    /\ HasFinalAnswer(r)
    /\ NoToolExecuted
    /\ observations' = Append(observations, ObsMustExecuteTool)
    /\ iteration' = iteration + 1
    /\ UNCHANGED <<pc, message, operation_trace, tools_executed, ret,
                   emitted, tool_ok>>

\* a Final Answer after a tool has been executed: the loop over
\* template_patterns appends one observation and adds one to iteration for
\* every matching pattern (its `continue` continues that for loop), then
\* the answer is emitted and returned
ValidateFinalAnswer(r) ==
    /\ Received(r)
    /\ HasFinalAnswer(r)
    /\ ~NoToolExecuted
    /\ LET matched == PatternHits[r.answer]
       IN /\ observations' = observations \o Repeat(Obs("placeholder", TRUE), matched)
          /\ iteration' = iteration + matched
          /\ emitted' = Append(emitted, r.answer)
          /\ ret' = Return(TRUE, "answer", r.answer, operation_trace,
                           iteration + matched + 1)
    /\ pc' = "done"
    /\ UNCHANGED <<message, operation_trace, tools_executed, events, tool_ok>>

\* no `Action: <name>` in the response
NoValidAction(r) ==
    /\ Received(r)
    /\ ~HasFinalAnswer(r)
    /\ r.action = "none"
    /\ observations' = Append(observations, ObsNoValidAction)
    /\ iteration' = iteration + 1
    /\ UNCHANGED <<pc, message, operation_trace, tools_executed, ret,
                   emitted, events, tool_ok>>

\* execute_semantic_search / execute_sql_query: the observation is the
\* serialized result, or "Error: ..." when the embedding or the query fails
ToolObservation_silent(tool, outcome) == Obs(tool, FALSE)

ToolObservation(tool, outcome) == Obs(tool, outcome = "error")

SemanticSearch(r, outcome) ==
    /\ Received(r)
    /\ Counted
    /\ ~HasFinalAnswer(r)
    /\ r.action = "semantic_search"
    /\ operation_trace' = Append(operation_trace, <<"semantic_search", r.input>>)
    /\ tools_executed' = Append(tools_executed, "semantic_search")
    /\ observations' = Append(observations, ToolObservation("semantic_search", outcome))
    /\ tool_ok' = tool_ok + (IF outcome = "ok" THEN 1 ELSE 0)
    /\ iteration' = iteration + 1
    /\ UNCHANGED <<pc, message, ret, emitted>>

SqlQuery(r, outcome) ==
    /\ Received(r)
    /\ Counted
    /\ ~HasFinalAnswer(r)
    /\ r.action = "sql_query"
    /\ operation_trace' = Append(operation_trace, <<"sql_query", r.input>>)
    /\ tools_executed' = Append(tools_executed, "sql_query")
    /\ observations' = Append(observations, ToolObservation("sql_query", outcome))
    /\ tool_ok' = tool_ok + (IF outcome = "ok" THEN 1 ELSE 0)
    /\ iteration' = iteration + 1
    /\ UNCHANGED <<pc, message, ret, emitted>>

\* crawl_web without a url in the action input
CrawlWebNoUrl(r) ==
    /\ Received(r)
    /\ Counted
    /\ ~HasFinalAnswer(r)
    /\ r.action = "crawl_web"
    /\ r.input # "url"
    /\ observations' = Append(observations, Obs("crawl_web_no_url", TRUE))
    /\ iteration' = iteration + 1
    /\ UNCHANGED <<pc, message, operation_trace, tools_executed, ret,
                   emitted, tool_ok>>

\* crawl_web with a url: `message` is rebound to the A2AMessage sent to the
\* crawler; the crawler answers with status success or error
CrawlWeb(r, outcome) ==
    /\ Received(r)
    /\ Counted
    /\ ~HasFinalAnswer(r)
    /\ r.action = "crawl_web"
    /\ r.input = "url"
    /\ message' = "A2AMessage"
    /\ tools_executed' = IF outcome = "ok"
                         THEN Append(tools_executed, "crawl_web")
                         ELSE tools_executed
    /\ observations' = Append(observations, ToolObservation("crawl_web", outcome))
    /\ tool_ok' = tool_ok + (IF outcome = "ok" THEN 1 ELSE 0)
    /\ iteration' = iteration + 1
    /\ UNCHANGED <<pc, operation_trace, ret, emitted>>

UnknownAction(r) ==
    /\ Received(r)
    /\ Counted
    /\ ~HasFinalAnswer(r)
    /\ r.action \notin {"none", "semantic_search", "sql_query", "crawl_web"}
    /\ observations' = Append(observations, ObsUnknownAction)
    /\ iteration' = iteration + 1
    /\ UNCHANGED <<pc, message, operation_trace, tools_executed, ret,
                   emitted, tool_ok>>

\* "iterations": MAX_ITERATIONS
ExhaustedIterations_counter == iteration + 1

ExhaustedIterations == MAX_ITERATIONS

\* the return statements after the loop
AfterExhausted_again == "loop"

AfterExhausted == "done"

\* the while loop ended without a return
MaxIterationsReached ==
    /\ pc = "loop"
    /\ ~LoopCondition
    /\ ret' = Return(FALSE,
                     IF NoToolExecuted THEN "not_found" ELSE "inconclusive",
                     <<>>, <<>>, ExhaustedIterations)
    /\ pc' = AfterExhausted
    /\ UNCHANGED <<message, observations, iteration, operation_trace,
                   tools_executed, llm_calls, emitted, events, tool_ok,
                   final_seen, last_resp, prompt, sent_history>>

----------------------------------------------------------------------------
(* chat_with_ai: the risk gate in front of the orchestration *)

\* the `message` field of the request bodies of the session
ChatMessages ==
    { <<"y","e","s">>,
       <<" ","Y"," ">>,
       <<"O","K">>,
       <<"S","u","r","e">>,
       <<"n","o">>,
       <<"C","a","n","c","e","l">>,
       <<"m","a","y","b","e">>,
       <<"D","e","l","e","t","e"," ","x">>,
       <<"d","r","o","p"," ","y">>,
       <<"h","e","l","l","o">> }

affirmative_replies == {<<"y","e","s">>, <<"y">>, <<"o","k">>, <<"s","u","r","e">>}

negative_replies == {<<"n","o">>, <<"n">>, <<"c","a","n","c","e","l">>}

\* message.lower() in ['yes', 'y', 'ok', 'sure']
IsAffirmative(msg) == Lower(msg) \in affirmative_replies

IsNegative_any(msg) == TRUE

\* message.lower() in ['no', 'n', 'cancel']
IsNegative(msg) == Lower(msg) \in negative_replies

\* risk['risk_level'] == 'high'
IsHighRisk_never(msg) == FALSE

IsHighRisk(msg) == assess_message_risk(msg).risk_level = "high"

\* the session is a dict: a set of <<key, value>> pairs
HasPending(s) == \E e \in s : e[1] = "pending_action"

\* pending['message']
PendingMessage_reply(s) == <<"y","e","s">>

PendingMessage(s) == (CHOOSE e \in s : e[1] = "pending_action")[2]

\* session.pop('pending_action')
PopPending_kept(s) == s

PopPending(s) == {e \in s : e[1] # "pending_action"}

\* session['pending_action'] = {'message': message}
StorePending(s, msg) == PopPending(s) \cup {<<"pending_action", msg>>}

NoRequest == [message |-> <<>>, branch |-> "none", assessed |-> FALSE]

ChatInit ==
    /\ session = {}
    /\ orch_runs = <<>>
    /\ http_response = "none"
    /\ requests = 0
    /\ last_req = NoRequest
    /\ pending_id = 0
    /\ next_id = 1
    /\ cancelled = {}

\* request.get_json(); message = data.get('message', '').strip()
Request(raw, branch, assessed) ==
    /\ requests < MaxRequests
    /\ requests' = requests + 1
    /\ last_req' = [message |-> Strip(raw), branch |-> branch,
                    assessed |-> assessed]

\* an orchestration run (handle_ai_chat_request_react, USE_REACT being True)
\* is started on text m; pid is the PendingAction it comes from, 0 if none
StartRun(m, pid, reply) ==
    orch_runs' = Append(orch_runs, [message |-> m, pid |-> pid, reply |-> reply])

\* pending outstanding, affirmative reply
ConfirmPending(raw) ==
    /\ HasPending(session)
    /\ IsAffirmative(Strip(raw))
    /\ Request(raw, "confirmed", FALSE)
    /\ session' = PopPending(session)
    /\ StartRun(PendingMessage(session), pending_id, Strip(raw))
    /\ http_response' = "run_result"
    /\ pending_id' = 0
    /\ UNCHANGED <<next_id, cancelled>>

\* pending outstanding, negative reply
CancelPending(raw) ==
    /\ HasPending(session)
    /\ ~IsAffirmative(Strip(raw))
    /\ IsNegative(Strip(raw))
    /\ Request(raw, "cancelled", FALSE)
    /\ session' = PopPending(session)
    /\ http_response' = "action_cancelled"
    /\ cancelled' = cancelled \cup {pending_id}
    /\ pending_id' = 0
    /\ UNCHANGED <<orch_runs, next_id>>

\* pending outstanding, any other reply
InvalidConfirmation(raw) ==
    /\ HasPending(session)
    /\ ~IsAffirmative(Strip(raw))
    /\ ~IsNegative(Strip(raw))
    /\ Request(raw, "invalid", FALSE)
    /\ http_response' = "please_respond"
    /\ UNCHANGED <<session, orch_runs, pending_id, next_id, cancelled>>

\* no pending action, message assessed high
RequireConfirmation(raw) ==
    /\ ~HasPending(session)
    /\ IsHighRisk(Strip(raw))
    /\ Request(raw, "stored", TRUE)
    /\ session' = StorePending(session, Strip(raw))
    /\ http_response' = "confirm_prompt"
    /\ pending_id' = next_id
    /\ next_id' = next_id + 1
    /\ UNCHANGED <<orch_runs, cancelled>>

\* no pending action, message assessed low
ProcessMessage(raw) ==
    /\ ~HasPending(session)
    /\ ~IsHighRisk(Strip(raw))
    /\ Request(raw, "processed", TRUE)
    /\ StartRun(Strip(raw), 0, Strip(raw))
    /\ http_response' = "run_result"
    /\ UNCHANGED <<session, pending_id, next_id, cancelled>>

----------------------------------------------------------------------------
(* assess_message_risk on inputs built from fragments *)

Fragments ==
    { <<"D","e","l","e","t","e">>,
       <<"D","R","O","P">>,
       <<"r","e","m","o","v","e">>,
       <<"C","l","e","a","r">>,
       <<"d","e","s","t","r","o","y">>,
       <<"t","R","U","N","C","A","T","E">>,
       <<"d","e">>,
       <<"L","E","T","E">>,
       <<"d","r","o">>,
       <<"p">>,
       <<" ">>,
       <<"S","h","o","w">> }

\* the concatenations of at most n fragments
RECURSIVE Concats(_)
Concats(n) ==
    IF n = 0 THEN {<<>>}
    ELSE Concats(n - 1) \cup {m \o f : m \in Concats(n - 1), f \in Fragments}

RiskMessages == Concats(MaxFrags)

NoResult == [risk_level |-> "none", explanation |-> "none",
             keywords_found |-> <<>>]

RiskIdle ==
    /\ risk_input = <<>>
    /\ risk_result = NoResult

RiskInit ==
    /\ risk_input \in RiskMessages
    /\ risk_result = NoResult

\* risk = assess_message_risk(message)
Assess ==
    /\ risk_result = NoResult
    /\ risk_result' = assess_message_risk(risk_input)
    /\ UNCHANGED risk_input

\* the next message to assess
NextMessage ==
    /\ risk_result # NoResult
    /\ risk_input' \in RiskMessages
    /\ risk_result' = NoResult

----------------------------------------------------------------------------
(* handle_ai_chat_request: the conversation history of the session *)

HistoryEntry(role, content) == [role |-> role, content |-> content]

\* Python lst[start:], a negative start counting from the end
SliceFrom(lst, start) ==
    LET n    == Len(lst)
        from == IF start < 0
                THEN (IF n + start < 0 THEN 0 ELSE n + start)
                ELSE (IF start > n THEN n ELSE start)
    IN SubSeq(lst, from + 1, n)

\* conversation_history[-max_history:]
LastMessages(lst, n) == SliceFrom(lst, 0 - n)

\* if len(conversation_history) > max_history: ...[-max_history:]
TruncateHistory(h, max) ==
    IF Len(h) > max THEN LastMessages(h, max) ELSE h

t_trouble == <<"I","'","m"," ","s","o","r","r","y",","," ","I","'","m"," ","h","a","v","i","n","g"," ","t","r","o","u","b","l","e"," ","r","i","g","h","t"," ","n","o","w","."," ","P","l","e","a","s","e"," ","t","r","y"," ","a","g","a","i","n"," ","l","a","t","e","r",".">>

NoChatResult == [success |-> FALSE, response |-> <<>>, tuple |-> FALSE,
                 returned |-> FALSE]

\* GroqClient.send_message: {"success": True, "response": ...}
SuccessResult(response) ==
    [success |-> TRUE, response |-> response, tuple |-> FALSE,
     returned |-> TRUE]

\* GroqClient.send_message: {"success": False, "error": ..., "response": ...}
FailureResult ==
    [success |-> FALSE, response |-> t_trouble, tuple |-> FALSE,
     returned |-> TRUE]

\* the except branch: return jsonify({...}), 500, a tuple
ExceptionResult ==
    [success |-> FALSE, response |-> <<"A","n"," ","e","r","r","o","r"," ","o","c","c","u","r","r","e","d">>, tuple |-> TRUE,
     returned |-> TRUE]

\* handle_ai_chat_request(llm_client, message, ..., emit_to_socket) with the
\* result of send_message, or the exception raised before it
handle_ai_chat_request(msg, result, emit_to_socket) ==
    /\ IF result.success
       THEN LET appended == chat_history \o
                               <<HistoryEntry("user", msg),
                                 HistoryEntry("assistant", result.response)>>
            IN /\ chat_history' = TruncateHistory(appended, max_history)
               /\ conversation' = conversation \o
                                    <<HistoryEntry("user", msg),
                                      HistoryEntry("assistant", result.response)>>
               /\ chat_emitted' = IF emit_to_socket
                                  THEN Append(chat_emitted, result.response)
                                  ELSE chat_emitted
       ELSE UNCHANGED <<chat_history, conversation, chat_emitted>>
    /\ chat_result' = result
    /\ UNCHANGED max_history

q_1 == <<"q","1">>
a_2 == <<"a","2">>

UserTexts == {q_1, <<"q","2">>}
ReplyTexts == {<<"a","1">>, a_2}

\* no call yet; the default of GROQ_MAX_CONVERSATION_HISTORY
HistoryIdle ==
    /\ max_history = 1
    /\ chat_history = <<>>
    /\ conversation = <<>>
    /\ turns = 0
    /\ chat_result = NoChatResult
    /\ chat_emitted = <<>>

\* a session in which one exchange is already stored
HistoryStored ==
    /\ max_history = 2
    /\ chat_history = <<HistoryEntry("user", q_1), HistoryEntry("assistant", a_2)>>
    /\ conversation = chat_history
    /\ turns = 1
    /\ chat_result = SuccessResult(a_2)
    /\ chat_emitted = <<a_2>>

\* a new session under some configured maximum
HistoryInit ==
    /\ max_history \in 0..MaxHistory
    /\ chat_history = <<>>
    /\ conversation = <<>>
    /\ turns = 0
    /\ chat_result = NoChatResult
    /\ chat_emitted = <<>>

\* a turn whose model call succeeds
ChatTurn(msg, response, emit_to_socket) ==
    /\ turns < MaxTurns
    /\ turns' = turns + 1
    /\ handle_ai_chat_request(msg, SuccessResult(response), emit_to_socket)

\* a turn whose model call fails
FailedTurn(msg) ==
    /\ turns < MaxTurns
    /\ turns' = turns + 1
    /\ handle_ai_chat_request(msg, FailureResult, TRUE)

\* a turn that raises before the model call returns
RaisingTurn(msg) ==
    /\ turns < MaxTurns
    /\ turns' = turns + 1
    /\ handle_ai_chat_request(msg, ExceptionResult, TRUE)

----------------------------------------------------------------------------
(* execute_orchestrator_response: reading the orchestrator's plan *)

Quotes == {"'", "\""}
Digits == {"0","1","2","3","4","5","6","7","8","9"}

t_call_open  == <<"h","a","n","d","l","e","_","a","i","_","c","h","a","t","_","r","e","q","u","e","s","t","(">>
t_call_role  == <<"h","a","n","d","l","e","_","a","i","_","c","h","a","t","_","r","e","q","u","e","s","t","(","r","o","l","e","=">>
t_role_eq    == <<"r","o","l","e","=">>
t_message_eq == <<"m","e","s","s","a","g","e","=">>

\* the smallest element of a non-empty set of integers
Min(S) == CHOOSE x \in S : \A y \in S : x <= y

\* the first position from p on whose character is in cs, 0 when there is none
FirstOf(s, cs, p) ==
    LET hits == {i \in p..Len(s) : s[i] \in cs}
    IN IF hits = {} THEN 0 ELSE Min(hits)

\* the first position from p on that holds no whitespace (Len(s) + 1 at most)
SkipSpace(s, p) ==
    LET rest == {i \in p..Len(s) : ~IsSpace(s[i])}
    IN IF rest = {} THEN Len(s) + 1 ELSE Min(rest)

\* re.findall(r"handle_ai_chat_request\([^)]+\)", s): leftmost matches that
\* do not overlap, each running to the first ")" after at least one character
RECURSIVE FindAllFrom(_, _)
FindAllFrom(s, p) ==
    LET opens == {i \in p..Len(s) : OccursAt(s, t_call_open, i)}
    IN IF opens = {} THEN <<>>
       ELSE LET at    == Min(opens)
                start == at + Len(t_call_open)
                close == FirstOf(s, {")"}, start)
            IN IF close > start
               THEN <<SubSeq(s, at, close)>> \o FindAllFrom(s, close + 1)
               ELSE FindAllFrom(s, at + 1)

\* Python s.replace(old, new)
\* (old is never empty here): the occurrences of old, leftmost first and
\* not overlapping, become new
RECURSIVE ReplaceFrom(_, _, _, _)
ReplaceFrom(s, old, new, p) ==
    LET hits == {i \in p..Len(s) : OccursAt(s, old, i)}
    IN IF hits = {} THEN SubSeq(s, p, Len(s))
       ELSE SubSeq(s, p, Min(hits) - 1) \o new \o
            ReplaceFrom(s, old, new, Min(hits) + Len(old))

Replace(s, old, new) == ReplaceFrom(s, old, new, 1)

\* function_call.replace('\\"', '"').replace("\\'", "'")
Unescape(s) == Replace(Replace(s, <<"\\", "\"">>, <<"\"">>), <<"\\", "'">>, <<"'">>)

NoMatch == [matched |-> FALSE, role |-> <<>>, message |-> <<>>]

\* r"role=['\"]([^'\"]+)['\"],\s*message=['\"]([^'\"]+)['\"](?:[,)]|$)"
\* tried at position p
MatchCallAt(s, p) ==
    LET rq    == p + Len(t_role_eq)
        r_end == FirstOf(s, Quotes, rq + 1)
        mkey  == SkipSpace(s, r_end + 2)
        mq    == mkey + Len(t_message_eq)
        m_end == FirstOf(s, Quotes, mq + 1)
    IN IF /\ OccursAt(s, t_role_eq, p)
          /\ rq <= Len(s)
          /\ s[rq] \in Quotes
          /\ r_end > rq + 1
          /\ r_end + 1 <= Len(s)
          /\ s[r_end + 1] = ","
          /\ OccursAt(s, t_message_eq, mkey)
          /\ mq <= Len(s)
          /\ s[mq] \in Quotes
          /\ m_end > mq + 1
          /\ \/ m_end = Len(s)
             \/ (m_end + 1 = Len(s) /\ s[Len(s)] = "\n")
             \/ (m_end + 1 <= Len(s) /\ s[m_end + 1] \in {",", ")"})
       THEN [matched |-> TRUE,
             role    |-> SubSeq(s, rq + 1, r_end - 1),
             message |-> SubSeq(s, mq + 1, m_end - 1)]
       ELSE NoMatch

\* re.search of that pattern
SearchCall(s) ==
    LET ps == {p \in 1..Len(s) : MatchCallAt(s, p).matched}
    IN IF ps = {} THEN NoMatch ELSE MatchCallAt(s, Min(ps))

\* ast.literal_eval, restricted to the literals the plans of this model are
\* made of: an integer, a string in either quote style with the escapes
\* \" \' \\, and a flat list of these; on them it raises where Python does

\* the position of the quote that closes a string opened with q, 0 if none
RECURSIVE StringEnd(_, _, _)
StringEnd(s, q, p) ==
    LET k == FirstOf(s, {q, "\\", "\n"}, p)
    IN IF k = 0 THEN 0
       ELSE IF s[k] = "\\" THEN StringEnd(s, q, k + 2)
       ELSE IF s[k] = "\n" THEN 0
       ELSE k

\* the text of a string literal's body: \" \' and \\ stand for one character
RECURSIVE Unquote(_, _)
Unquote(s, p) ==
    LET escapes == {i \in p..(Len(s) - 1) :
                       s[i] = "\\" /\ s[i + 1] \in Quotes \cup {"\\"}}
    IN IF escapes = {} THEN SubSeq(s, p, Len(s))
       ELSE SubSeq(s, p, Min(escapes) - 1) \o <<s[Min(escapes) + 1]>> \o
            Unquote(s, Min(escapes) + 2)

NoLiteral == [ok |-> FALSE, type |-> "none", text |-> <<>>, next |-> 0]

\* the literal that starts at position p
LiteralAt(s, p) ==
    IF p > Len(s) THEN NoLiteral
    ELSE IF s[p] \in Quotes
         THEN LET close == StringEnd(s, s[p], p + 1)
              IN IF close = 0 THEN NoLiteral
                 ELSE [ok |-> TRUE, type |-> "str",
                       text |-> Unquote(SubSeq(s, p + 1, close - 1), 1),
                       next |-> close + 1]
    ELSE IF s[p] \in Digits
         THEN LET over == {i \in p..Len(s) : s[i] \notin Digits}
                  stop == IF over = {} THEN Len(s) + 1 ELSE Min(over)
                  text == SubSeq(s, p, stop - 1)
              IN IF s[p] = "0" /\ \E i \in 1..Len(text) : text[i] # "0"
                 THEN NoLiteral
                 ELSE [ok |-> TRUE, type |-> "int", text |-> text,
                       next |-> stop]
    ELSE NoLiteral

Item(type, text) == [type |-> type, text |-> text]

Raised == [raised |-> TRUE, type |-> "none", items |-> <<>>]

Value(type, items) == [raised |-> FALSE, type |-> type, items |-> items]

\* the elements between "[" and the closing "]" at position close
RECURSIVE ListItems(_, _, _)
ListItems(s, p, close) ==
    LET at == SkipSpace(s, p)
    IN IF at = close THEN Value("list", <<>>)
       ELSE LET lit  == LiteralAt(s, at)
                sep  == SkipSpace(s, lit.next)
            IN IF ~lit.ok \/ lit.next > close THEN Raised
               ELSE IF sep = close
                    THEN Value("list", <<Item(lit.type, lit.text)>>)
               ELSE IF s[sep] # "," THEN Raised
               ELSE LET more == ListItems(s, sep + 1, close)
                    IN IF more.raised THEN Raised
                       ELSE Value("list", <<Item(lit.type, lit.text)>> \o more.items)

LiteralEval(s) ==
    IF s = <<>> THEN Raised
    ELSE IF s[1] = "["
         THEN IF s[Len(s)] = "]" THEN ListItems(s, 2, Len(s)) ELSE Raised
    ELSE LET lit == LiteralAt(s, 1)
         IN IF lit.ok /\ lit.next = Len(s) + 1
            THEN Value(lit.type, <<Item(lit.type, lit.text)>>)
            ELSE Raised

\* function_calls, were findall to stop at its first match
ExtractCalls_first(plan) ==
    LET cleaned_response == Strip(plan)
        found == FindAllFrom(cleaned_response, 1)
    IN IF found # <<>>
       THEN Value("list", <<Item("str", found[1])>>)
       ELSE LET v == LiteralEval(cleaned_response)
            IN IF v.raised THEN Value("list", <<>>) ELSE v

\* function_calls: what the regex finds, else what literal_eval yields, else []
ExtractCalls(plan) ==
    LET cleaned_response == Strip(plan)
        found == FindAllFrom(cleaned_response, 1)
    IN IF found # <<>>
       THEN Value("list", [i \in 1..Len(found) |-> Item("str", found[i])])
       ELSE LET v == LiteralEval(cleaned_response)
            IN IF v.raised THEN Value("list", <<>>) ELSE v

role_db_read  == <<"D","a","t","a","b","a","s","e"," ","R","e","a","d"," ","E","x","p","e","r","t">>
role_db_write == <<"D","a","t","a","b","a","s","e"," ","W","r","i","t","e"," ","E","x","p","e","r","t">>
role_content  == <<"C","o","n","t","e","n","t"," ","E","x","p","e","r","t">>

DatabaseRoles == {role_db_read, role_db_write}

\* the message handed to the expert
ProcessedMessage(role, expert_message) ==
    IF role = role_db_write
    THEN Replace(Replace(expert_message, <<"r","e","s","u","m","e">>, <<"e","x","p","e","r","i","e","n","c","e">>),
                 <<"R","e","s","u","m","e">>, <<"E","x","p","e","r","i","e","n","c","e">>)
    ELSE expert_message

\* what the loop body makes of one element of function_calls
ReadCall(function_call) ==
    IF function_call.type # "str"
    THEN [kind |-> "raises", role |-> <<>>, message |-> <<>>]
    ELSE IF ~Contains(function_call.text, t_call_role)
    THEN [kind |-> "invalid", role |-> <<>>, message |-> <<>>]
    ELSE LET match == SearchCall(Unescape(function_call.text))
         IN IF match.matched
            THEN [kind |-> "call", role |-> match.role, message |-> match.message]
            ELSE [kind |-> "invalid", role |-> <<>>, message |-> <<>>]

----------------------------------------------------------------------------
(* The plans the Orchestrator role may produce *)

msg_count == <<"c","o","u","n","t"," ","s","k","i","l","l","s">>
msg_add   == <<"a","d","d"," ","r","e","s","u","m","e">>
msg_page  == <<"s","u","m","m","a","r","i","z","e"," ","p","a","g","e">>
msg_paren == <<"c","o","u","n","t"," ","(","a","l","l",")"," ","s","k","i","l","l","s">>
msg_whats == <<"w","h","a","t","'","s"," ","o","n"," ","t","h","i","s"," ","p","a","g","e">>

\* handle_ai_chat_request(role=<q>role<q>, message=<q>msg<q>)
CallText(q, role, msg) ==
    t_call_role \o <<q>> \o role \o <<q, ",", " ">> \o
    t_message_eq \o <<q>> \o msg \o <<q, ")">>

plan_one        == CallText("\"", role_db_read, msg_count)
plan_two        == <<"[">> \o CallText("'", role_content, msg_page) \o <<",", " ">> \o
                   CallText("\"", role_db_write, msg_add) \o <<"]">>
plan_bad_last   == CallText("\"", role_db_read, msg_count) \o <<",", " ">> \o
                   t_call_open \o t_message_eq \o <<"\"">> \o msg_page \o <<"\"", ")">>
plan_bad_first  == t_call_role \o <<"\"">> \o role_content \o <<"\"", ")", ",", " ">> \o
                   CallText("\"", role_db_read, msg_count)
plan_escaped    == t_call_role \o <<"\\", "\"">> \o role_content \o <<"\\", "\"", ",", " ">> \o
                   t_message_eq \o <<"\\", "\"">> \o msg_page \o <<"\\", "\"", ")">>
plan_paren      == CallText("\"", role_db_read, msg_paren)
plan_apostrophe == CallText("\"", role_content, msg_whats)
plan_prose      == <<"I"," ","c","a","n","n","o","t"," ","h","e","l","p">>
plan_empty_list == <<"[", "]">>
plan_string     == <<"\"","n","o"," ","p","l","a","n","\"">>
plan_number     == <<"7">>
plan_list_text  == <<"[","'","c","o","u","n","t"," ","s","k","i","l","l","s","'","]">>
plan_list_number == <<"[", "1", "]">>

Plans == {plan_one, plan_two, plan_bad_last, plan_bad_first, plan_escaped,
          plan_paren, plan_apostrophe, plan_prose, plan_empty_list,
          plan_string, plan_number, plan_list_text, plan_list_number}

----------------------------------------------------------------------------
(* process_orchestrator_request (plan-execute branch) and                  *)
(* execute_orchestrator_response                                           *)

t_unknown        == <<"U","n","k","n","o","w","n">>
t_failed_plan    == <<"F","a","i","l","e","d"," ","t","o"," ","e","x","e","c","u","t","e"," ","o","r","c","h","e","s","t","r","a","t","o","r"," ","p","l","a","n">>

\* the user's message
question == q_1

NoCalls == Value("list", <<>>)

NoPrompt == [sent |-> FALSE, message |-> <<>>, results |-> <<>>]

NoPlanReturn ==
    [returned |-> FALSE, success |-> FALSE, error |-> "none",
     response |-> <<>>, trace |-> <<>>, expert_results |-> <<>>,
     orchestrator_calls |-> -1]

\* the failure dicts: {'success': False, 'error': ..., 'response': ...}
PlanFailure(error, response) ==
    [returned |-> TRUE, success |-> FALSE, error |-> error,
     response |-> response, trace |-> <<>>, expert_results |-> <<>>,
     orchestrator_calls |-> -1]

\* 'orchestrator_calls': len(function_calls)
OrchestratorCalls == Len(function_calls.items)

SubResult(role, msg, response, success) ==
    [role |-> role, message |-> msg, response |-> response, success |-> success]

\* the sub-result of the except branch of the loop body
ExecutionError(fc) ==
    <<SubResult(t_unknown, fc.text, "execution_error", FALSE)>>

\* where the loop stands after the except branch
AfterExecutionError_abort == Len(function_calls.items)

AfterExecutionError == call_index + 1

PlanIdle ==
    /\ plan_pc = "plan"
    /\ orchestrator_response = <<>>
    /\ function_calls = NoCalls
    /\ calls_read = <<>>
    /\ call_index = 0
    /\ results = <<>>
    /\ plan_trace = <<>>
    /\ LLM_ROLES = "defaults"
    /\ synthesis_prompt = NoPrompt
    /\ plan_ret = NoPlanReturn
    /\ plan_emitted = <<>>
    /\ expert_calls = <<>>
    /\ db_operations = 0
    /\ role_fetches = 0
    /\ synthesis_calls = 0
    /\ provider_errors = 0
    /\ call_exceptions = 0
    /\ roles_used = <<>>

histState == <<max_history, chat_history, conversation, chat_result,
               chat_emitted>>

\* the Orchestrator role answers with a plan
PlanningCall(p) ==
    /\ roles_used' = Append(roles_used, LLM_ROLES)
    /\ plan_pc = "plan"
    /\ UNCHANGED calls_read
    /\ UNCHANGED call_exceptions
    /\ handle_ai_chat_request(question, SuccessResult(p), FALSE)
    /\ orchestrator_response' = p
    /\ plan_pc' = "parse"
    /\ UNCHANGED <<function_calls, call_index, results, plan_trace, LLM_ROLES,
                   synthesis_prompt, plan_ret, plan_emitted, expert_calls,
                   db_operations, role_fetches, synthesis_calls,
                   provider_errors>>

\* the planning call fails: its response is returned as it is
PlanningFails ==
    /\ roles_used' = Append(roles_used, LLM_ROLES)
    /\ plan_pc = "plan"
    /\ UNCHANGED calls_read
    /\ UNCHANGED call_exceptions
    /\ handle_ai_chat_request(question, FailureResult, FALSE)
    /\ provider_errors' = provider_errors + 1
    /\ plan_ret' = PlanFailure("planning_failed", t_trouble)
    /\ plan_pc' = "done"
    /\ UNCHANGED <<orchestrator_response, function_calls, call_index, results,
                   plan_trace, LLM_ROLES, synthesis_prompt, plan_emitted,
                   expert_calls, db_operations, role_fetches, synthesis_calls>>

\* function_calls is a list: the loop starts
PlanRead ==
    /\ UNCHANGED roles_used
    /\ plan_pc = "parse"
    /\ UNCHANGED call_exceptions
    /\ ExtractCalls(orchestrator_response).type = "list"
    /\ function_calls' = ExtractCalls(orchestrator_response)
    /\ calls_read' = [i \in 1..Len(function_calls'.items) |->
                         ReadCall(function_calls'.items[i])]
    /\ plan_pc' = "loop"
    /\ UNCHANGED <<orchestrator_response, call_index, results, plan_trace,
                   LLM_ROLES, synthesis_prompt, plan_ret, plan_emitted,
                   expert_calls, db_operations, role_fetches, synthesis_calls,
                   provider_errors>>
    /\ UNCHANGED histState

\* literal_eval gave a value that has a length and is no list
PlanNotAList ==
    /\ UNCHANGED roles_used
    /\ plan_pc = "parse"
    /\ UNCHANGED calls_read
    /\ UNCHANGED call_exceptions
    /\ ExtractCalls(orchestrator_response).type = "str"
    /\ function_calls' = ExtractCalls(orchestrator_response)
    /\ plan_ret' = PlanFailure("invalid_format", <<"I","n","v","a","l","i","d"," ","o","r","c","h","e","s","t","r","a","t","o","r"," ","f","o","r","m","a","t">>)
    /\ plan_pc' = "done"
    /\ UNCHANGED <<orchestrator_response, call_index, results, plan_trace,
                   LLM_ROLES, synthesis_prompt, plan_emitted, expert_calls,
                   db_operations, role_fetches, synthesis_calls,
                   provider_errors>>
    /\ UNCHANGED histState

\* literal_eval gave a number: len(function_calls) raises, the outer except
\* branch returns
PlanHasNoLength ==
    /\ UNCHANGED roles_used
    /\ plan_pc = "parse"
    /\ UNCHANGED calls_read
    /\ UNCHANGED call_exceptions
    /\ ExtractCalls(orchestrator_response).type = "int"
    /\ function_calls' = ExtractCalls(orchestrator_response)
    /\ plan_ret' = PlanFailure("execution_error", t_failed_plan)
    /\ plan_pc' = "done"
    /\ UNCHANGED <<orchestrator_response, call_index, results, plan_trace,
                   LLM_ROLES, synthesis_prompt, plan_emitted, expert_calls,
                   db_operations, role_fetches, synthesis_calls,
                   provider_errors>>
    /\ UNCHANGED histState

\* the loop is at an element of function_calls
InLoop ==
    /\ plan_pc = "loop"
    /\ call_index < Len(function_calls.items)

function_call == function_calls.items[call_index + 1]

CurrentCall == calls_read[call_index + 1]

\* the element is not a call with role= and message=: return
InvalidCall ==
    /\ UNCHANGED roles_used
    /\ InLoop
    /\ UNCHANGED calls_read
    /\ UNCHANGED call_exceptions
    /\ CurrentCall.kind = "invalid"
    /\ plan_ret' = PlanFailure("invalid_call", <<"O","r","c","h","e","s","t","r","a","t","o","r"," ","g","e","n","e","r","a","t","e","d"," ","i","n","v","a","l","i","d"," ","f","u","n","c","t","i","o","n"," ","c","a","l","l">>)
    /\ plan_pc' = "done"
    /\ UNCHANGED <<orchestrator_response, function_calls, call_index, results,
                   plan_trace, LLM_ROLES, synthesis_prompt, plan_emitted,
                   expert_calls, db_operations, role_fetches, synthesis_calls,
                   provider_errors>>
    /\ UNCHANGED histState

\* the element is no string: the `in` test raises
ElementRaises ==
    /\ UNCHANGED roles_used
    /\ InLoop
    /\ UNCHANGED calls_read
    /\ call_exceptions' = call_exceptions + 1
    /\ CurrentCall.kind = "raises"
    /\ results' = results \o ExecutionError(function_call)
    /\ call_index' = AfterExecutionError
    /\ UNCHANGED <<plan_pc, orchestrator_response, function_calls, plan_trace,
                   LLM_ROLES, synthesis_prompt, plan_ret, plan_emitted,
                   expert_calls, db_operations, role_fetches, synthesis_calls,
                   provider_errors>>
    /\ UNCHANGED histState

\* database(), GroqClient() or db.getLLMRoles() raises
SetupRaises(fetched) ==
    /\ UNCHANGED roles_used
    /\ InLoop
    /\ UNCHANGED calls_read
    /\ call_exceptions' = call_exceptions + 1
    /\ CurrentCall.kind = "call"
    /\ role_fetches' = role_fetches + (IF fetched THEN 1 ELSE 0)
    /\ results' = results \o ExecutionError(function_call)
    /\ call_index' = AfterExecutionError
    /\ UNCHANGED <<plan_pc, orchestrator_response, function_calls, plan_trace,
                   LLM_ROLES, synthesis_prompt, plan_ret, plan_emitted,
                   expert_calls, db_operations, synthesis_calls,
                   provider_errors>>
    /\ UNCHANGED histState

\* db_roles = db.getLLMRoles(); if db_roles: LLM_ROLES = db_roles; then the
\* expert is called through handle_ai_chat_request, whose send_message reads
\* LLM_ROLES[role].  What db.getLLMRoles() returns is the stored role set at
\* that moment: nothing ("none"), the set stored when the run began, or the
\* set stored by a change made since.
GetLLMRoles == {"none", "database", "database_changed"}

CallExpert(db_roles, result) ==
    /\ InLoop
    /\ CurrentCall.kind = "call"
    /\ role_fetches' = role_fetches + 1
    /\ LLM_ROLES' = IF db_roles # "none" THEN db_roles ELSE LLM_ROLES
    /\ roles_used' = Append(roles_used, LLM_ROLES')
    /\ expert_calls' = Append(expert_calls,
                              <<CurrentCall.role,
                                ProcessedMessage(CurrentCall.role, CurrentCall.message)>>)
    /\ handle_ai_chat_request(
           ProcessedMessage(CurrentCall.role, CurrentCall.message), result, FALSE)
    /\ UNCHANGED <<plan_pc, orchestrator_response, function_calls,
                   synthesis_prompt, plan_ret, plan_emitted, synthesis_calls>>

\* a database expert answered: its code is run by execute_database_operation,
\* which reports "SQL: ...", "CODE: ..." or a message without either
DatabaseExpert(db_roles, response, operation) ==
    /\ CallExpert(db_roles, SuccessResult(response))
    /\ UNCHANGED calls_read
    /\ UNCHANGED call_exceptions
    /\ CurrentCall.role \in DatabaseRoles
    /\ db_operations' = db_operations + 1
    /\ plan_trace' = IF operation \in {"SQL", "CODE"}
                     THEN Append(plan_trace, operation)
                     ELSE plan_trace
    /\ results' = Append(results, SubResult(CurrentCall.role, CurrentCall.message,
                                            operation, TRUE))
    /\ call_index' = call_index + 1
    /\ UNCHANGED provider_errors

\* any other role answered
ContentExpert(db_roles, response) ==
    /\ CallExpert(db_roles, SuccessResult(response))
    /\ UNCHANGED calls_read
    /\ UNCHANGED call_exceptions
    /\ CurrentCall.role \notin DatabaseRoles
    /\ results' = Append(results, SubResult(CurrentCall.role, CurrentCall.message,
                                            "text", TRUE))
    /\ call_index' = call_index + 1
    /\ UNCHANGED <<db_operations, plan_trace, provider_errors>>

\* the expert's model call failed
ExpertFails(db_roles) ==
    /\ CallExpert(db_roles, FailureResult)
    /\ UNCHANGED calls_read
    /\ UNCHANGED call_exceptions
    /\ provider_errors' = provider_errors + 1
    /\ results' = Append(results, SubResult(CurrentCall.role, CurrentCall.message,
                                            "error", FALSE))
    /\ call_index' = call_index + 1
    /\ UNCHANGED <<db_operations, plan_trace>>

\* handle_ai_chat_request returned the tuple of its except branch:
\* result.get_json() raises
ExpertReturnsTuple(db_roles) ==
    /\ CallExpert(db_roles, ExceptionResult)
    /\ UNCHANGED calls_read
    /\ call_exceptions' = call_exceptions + 1
    /\ results' = results \o ExecutionError(function_call)
    /\ call_index' = AfterExecutionError
    /\ UNCHANGED <<db_operations, plan_trace, provider_errors>>

\* the loop is over
LoopDone ==
    /\ plan_pc = "loop"
    /\ call_index >= Len(function_calls.items)

\* the synthesis call; whatever 'response' it carries is emitted and returned
Synthesize(result) ==
    /\ UNCHANGED roles_used
    /\ LoopDone
    /\ UNCHANGED calls_read
    /\ UNCHANGED call_exceptions
    /\ synthesis_prompt' = [sent |-> TRUE, message |-> question, results |-> results]
    /\ synthesis_calls' = synthesis_calls + 1
    /\ provider_errors' = provider_errors + (IF result.success THEN 0 ELSE 1)
    /\ plan_emitted' = Append(plan_emitted, <<result.response, plan_trace>>)
    /\ plan_ret' = [returned |-> TRUE, success |-> TRUE,
                    error |-> "none", response |-> result.response,
                    trace |-> plan_trace, expert_results |-> results,
                    orchestrator_calls |-> OrchestratorCalls]
    /\ plan_pc' = "done"
    /\ UNCHANGED <<orchestrator_response, function_calls, call_index, results,
                   plan_trace, LLM_ROLES, expert_calls, db_operations,
                   role_fetches>>
    /\ UNCHANGED histState

\* GroqClient() raises before the synthesis call: the outer except branch
SynthesisSetupRaises ==
    /\ UNCHANGED roles_used
    /\ LoopDone
    /\ UNCHANGED calls_read
    /\ UNCHANGED call_exceptions
    /\ plan_ret' = PlanFailure("execution_error", t_failed_plan)
    /\ plan_pc' = "done"
    /\ UNCHANGED <<orchestrator_response, function_calls, call_index, results,
                   plan_trace, LLM_ROLES, synthesis_prompt, plan_emitted,
                   expert_calls, db_operations, role_fetches, synthesis_calls,
                   provider_errors>>
    /\ UNCHANGED histState

DatabaseOperations == {"SQL", "CODE", "message"}

----------------------------------------------------------------------------
(* handle_ai_chat_request_react: reading the action out of a response text *)

\* the characters `\w` matches
WordChar(c) ==
    \/ c \in Digits \cup {"_"}
    \/ \E i \in 1..26 : c \in {UpperLetters[i], LowerLetters[i]}

\* the first position from p on that holds no word character
WordEnd(s, p) ==
    LET rest == {i \in p..Len(s) : ~WordChar(s[i])}
    IN IF rest = {} THEN Len(s) + 1 ELSE Min(rest)

\* s.strip('"\''): drop leading and trailing quote characters
StripQuotes(s) ==
    LET keep == {i \in 1..Len(s) : s[i] \notin Quotes}
    IN IF keep = {} THEN <<>>
       ELSE SubSeq(s, Min(keep), CHOOSE i \in keep : \A j \in keep : j <= i)

\* re.IGNORECASE: the text is compared with the lower-case pattern
IgnoreCase_exact(s) == s

IgnoreCase(s) == Lower(s)

\* "Final Answer:" in response_text or "FINAL ANSWER:" in response_text
FinalMarkerIn(text) ==
    \/ Contains(text, <<"F","i","n","a","l"," ","A","n","s","w","e","r",":">>)
    \/ Contains(text, <<"F","I","N","A","L"," ","A","N","S","W","E","R",":">>)

t_sql_query == <<"s","q","l","_","q","u","e","r","y">>

NoAction == [matched |-> FALSE, name |-> <<>>]

\* re.search(r'Action:\s*(\w+)', response_text, re.IGNORECASE), and
\* action_match.group(1).lower()
ActionMatch(text) ==
    LET low  == IgnoreCase(text)
        word(p) == SkipSpace(text, p + 7)
        hits == {p \in 1..Len(text) :
                    /\ OccursAt(low, <<"a","c","t","i","o","n",":">>, p)
                    /\ word(p) <= Len(text)
                    /\ WordChar(text[word(p)])}
    IN IF hits = {} THEN NoAction
       ELSE LET w == word(Min(hits))
            IN [matched |-> TRUE,
                name |-> Lower(SubSeq(text, w, WordEnd(text, w) - 1))]

NoInput == [matched |-> FALSE, group |-> <<>>]

\* re.search(r'Action Input:\s*(.+?)(?:\nThought:|\nAction:|$)', text,
\* re.IGNORECASE | re.DOTALL): the group starts after the whitespace and
\* runs, for one character at least, to the first "\nThought:" or
\* "\nAction:", or to the end of the text (or the newline that ends it)
InputAfterMarker(text) ==
    LET low  == IgnoreCase(text)
        n    == Len(text)
        hits == {p \in 1..n : OccursAt(low, <<"a","c","t","i","o","n"," ","i","n","p","u","t",":">>, p) /\ p + 13 <= n}
    IN IF hits = {} THEN NoInput
       ELSE LET w     == SkipSpace(text, Min(hits) + 13)
                start == IF w <= n THEN w ELSE n
                ends  == {q \in (start + 1)..(n + 1) :
                            \/ q = n + 1
                            \/ q = n /\ text[n] = "\n"
                            \/ OccursAt(low, <<"\n","t","h","o","u","g","h","t",":">>, q)
                            \/ OccursAt(low, <<"\n","a","c","t","i","o","n",":">>, q)}
            IN [matched |-> TRUE, group |-> SubSeq(text, start, Min(ends) - 1)]

\* re.search of marker, `\s*`, (`\w+\s*` when word), open, `(.+?)`, close
BracketInput(text, marker, word, open, close) ==
    LET low == IgnoreCase(text)
        n   == Len(text)
        at(p) == LET w == SkipSpace(text, p + Len(marker))
                 IN IF ~word THEN w
                    ELSE IF w <= n /\ WordChar(text[w])
                         THEN SkipSpace(text, WordEnd(text, w))
                         ELSE n + 1
        closes(p) == {c \in (at(p) + 2)..n : text[c] = close}
        hits == {p \in 1..n :
                    /\ OccursAt(low, marker, p)
                    /\ at(p) <= n
                    /\ text[at(p)] = open
                    /\ closes(p) # {}}
    IN IF hits = {} THEN NoInput
       ELSE LET p == Min(hits)
            IN [matched |-> TRUE,
                group |-> SubSeq(text, at(p) + 1, Min(closes(p)) - 1)]

\* the loop over input_patterns: the first pattern that matches gives
\* action_input = match.group(1).strip(); "" when none matches
ActionInput(text) ==
    LET m1 == InputAfterMarker(text)
        m2 == BracketInput(text, <<"a","c","t","i","o","n",":">>, TRUE, "[", "]")
        m3 == BracketInput(text, <<"a","c","t","i","o","n",":">>, TRUE, "(", ")")
        m4 == BracketInput(text, <<"p","a","r","a","m","e","t","e","r","s",":">>, FALSE, "{", "}")
    IN IF m1.matched THEN Strip(m1.group)
       ELSE IF m2.matched THEN Strip(m2.group)
       ELSE IF m3.matched THEN Strip(m3.group)
       ELSE IF m4.matched THEN Strip(m4.group)
       ELSE <<>>

\* the sql_query branch: sql = action_input.strip('"\''), then
\* re.sub(r'^sql\s*[:=]\s*', '', sql, flags=re.IGNORECASE), then
\* strip('"\'') again
SqlOf(action_input) ==
    LET s  == StripQuotes(action_input)
        k  == SkipSpace(s, 4)
        s2 == IF /\ OccursAt(IgnoreCase(s), <<"s","q","l">>, 1)
                 /\ k <= Len(s)
                 /\ s[k] \in {":", "="}
              THEN SubSeq(s, SkipSpace(s, k + 1), Len(s))
              ELSE s
    IN StripQuotes(s2)

Parsed(kind, name, input) == [kind |-> kind, name |-> name, input |-> input]

\* what one iteration reads out of result["response"]: "final" when the
\* Final Answer marker is there, "none" when no action is found, else
\* "action" with the tool name and its input (the SQL text for sql_query)
ParseResponse(raw) ==
    LET response_text == Strip(raw)
        action_match  == ActionMatch(response_text)
        action_input  == ActionInput(response_text)
    IN IF FinalMarkerIn(response_text) THEN Parsed("final", <<>>, <<>>)
       ELSE IF ~action_match.matched THEN Parsed("none", <<>>, <<>>)
       ELSE IF action_match.name = t_sql_query
            THEN Parsed("action", t_sql_query, SqlOf(action_input))
            ELSE Parsed("action", action_match.name, action_input)

\* the texts a model may answer with: the two lines of a sql_query action,
\* with whitespace around them and the markers in three letter cases ...
t_action       == <<"A","c","t","i","o","n",":">>
t_action_input == <<"A","c","t","i","o","n"," ","I","n","p","u","t",":">>
t_select_1     == <<"S","E","L","E","C","T"," ","1">>

LetterCases(s) == {s, Lower(s), SwapCase(Lower(s))}

Blanks == {<<>>, <<" ">>, <<"\t">>}

WellFormedTexts ==
    {pre \o a \o ws \o t_sql_query \o sep \o ai \o ws \o t_select_1 \o post :
        pre \in {<<>>, <<" ">>, <<"\n">>},
        a \in LetterCases(t_action),
        ws \in Blanks,
        sep \in {<<"\n">>, <<" ", "\n">>, <<"\n", "\n">>},
        ai \in LetterCases(t_action_input),
        post \in {<<>>, <<"\n">>, <<" ", "\n">>}}

\* ... and texts of other shapes
OtherTexts ==
    { <<"T","h","o","u","g","h","t",":"," ","c","o","u","n","t","\n","A","c","t","i","o","n",":"," ","s","q","l","_","q","u","e","r","y","\n","A","c","t","i","o","n"," ","I","n","p","u","t",":"," ","\"","s","q","l","=","S","E","L","E","C","T"," ","1","\"","\n","T","h","o","u","g","h","t",":"," ","d","o","n","e">>,
      <<"A","c","t","i","o","n",":"," ","s","q","l","_","q","u","e","r","y","[","S","E","L","E","C","T"," ","1","]">>,
      <<"F","i","n","a","l"," ","A","n","s","w","e","r",":"," ","o","n","e","\n","A","c","t","i","o","n",":"," ","s","q","l","_","q","u","e","r","y","\n","A","c","t","i","o","n"," ","I","n","p","u","t",":"," ","S","E","L","E","C","T"," ","1">>,
      <<"I"," ","d","o"," ","n","o","t"," ","k","n","o","w">>,
      <<"A","c","t","i","o","n",":"," ","s","e","m","a","n","t","i","c","_","s","e","a","r","c","h","\n","P","a","r","a","m","e","t","e","r","s",":"," ","{","t","a","b","l","e",":"," ","'","s","k","i","l","l","s","'",","," ","q","u","e","r","y",":"," ","'","M","L","'","}">>,
      <<"A","c","t","i","o","n",":"," ","c","r","a","w","l","_","w","e","b","(","u","r","l","=","h","t","t","p",":","/","/","x",".","i","o",")">>,
      <<"A","c","t","i","o","n"," ",":"," ","s","q","l","_","q","u","e","r","y","\n","A","c","t","i","o","n"," ","I","n","p","u","t",":"," ","S","E","L","E","C","T"," ","1">>,
      <<"A","c","t","i","o","n",":"," ","s","q","l","_","q","u","e","r","y","\n","A","c","t","i","o","n"," ","I","n","p","u","t",":"," ","S","E","L","E","C","T"," ","1","\n","O","b","s","e","r","v","a","t","i","o","n",":"," ","1">> }

ResponseTexts == WellFormedTexts \cup OtherTexts

NoParse == Parsed("unread", <<>>, <<>>)

ParseIdle ==
    /\ raw_response = <<>>
    /\ parsed = NoParse
    /\ parsed_again = NoParse

ParseInit ==
    /\ raw_response \in ResponseTexts
    /\ parsed = NoParse
    /\ parsed_again = NoParse

\* an iteration reads the response
Parse ==
    /\ parsed = NoParse
    /\ parsed' = ParseResponse(raw_response)
    /\ UNCHANGED <<raw_response, parsed_again>>

\* the same text is read once more
ParseAgain ==
    /\ parsed # NoParse
    /\ parsed_again = NoParse
    /\ parsed_again' = ParseResponse(raw_response)
    /\ UNCHANGED <<raw_response, parsed>>

\* the next response text
NextText ==
    /\ parsed_again # NoParse
    /\ raw_response' \in ResponseTexts
    /\ parsed' = NoParse
    /\ parsed_again' = NoParse

----------------------------------------------------------------------------
(* generate_embedding and generate_query_embedding *)

EMBEDDING_DIM == 768

\* the function has not returned / returned None / returned result['embedding']
NotReturned == [returned |-> FALSE, none |-> FALSE, dim |-> 0]
None        == [returned |-> TRUE, none |-> TRUE, dim |-> 0]
Embedding   == [returned |-> TRUE, none |-> FALSE, dim |-> EMBEDDING_DIM]

\* the exceptions genai.embed_content raises: what went wrong, and str(e)
ProviderErrors ==
    { [kind |-> "rate_limit", text |-> <<"4","2","9"," ","R","e","s","o","u","r","c","e"," ","h","a","s"," ","b","e","e","n"," ","e","x","h","a","u","s","t","e","d">>],
      [kind |-> "rate_limit", text |-> <<"Q","u","o","t","a"," ","e","x","c","e","e","d","e","d"," ","f","o","r"," ","e","m","b","e","d"," ","r","e","q","u","e","s","t","s">>],
      [kind |-> "invalid_key", text |-> <<"4","0","0"," ","A","P","I"," ","k","e","y"," ","n","o","t"," ","v","a","l","i","d">>],
      [kind |-> "unavailable", text |-> <<"5","0","3"," ","T","h","e"," ","s","e","r","v","i","c","e"," ","i","s"," ","u","n","a","v","a","i","l","a","b","l","e">>],
      [kind |-> "payload_too_large", text |-> <<"4","0","0"," ","R","e","q","u","e","s","t"," ","p","a","y","l","o","a","d"," ","s","i","z","e"," ","e","x","c","e","e","d","s"," ","t","h","e"," ","l","i","m","i","t">>] }

\* any(kw in error_msg for kw in ['quota', 'limit', '429', 'rate']), where
\* error_msg = str(e).lower()
IsRateLimit(e) ==
    LET error_msg == Lower(e.text)
    IN \E kw \in {<<"q","u","o","t","a">>, <<"l","i","m","i","t">>,
                  <<"4","2","9">>, <<"r","a","t","e">>} :
          Contains(error_msg, kw)

\* wait_time = (2 ** attempt) + random.uniform(0, 1)
Backoff_constant(n) == 1

Backoff(n) == 2 ^ n

EmbedTexts == {<<>>, <<" ", "\n">>, <<"M","S","U">>}

EmbedIdle ==
    /\ task_type = "retrieval_document"
    /\ embed_text = <<>>
    /\ max_retries = 3
    /\ api_key = FALSE
    /\ attempt = 0
    /\ embedding = NotReturned
    /\ provider_calls = 0
    /\ provider_raised = <<>>
    /\ sleeps = <<>>

EmbedInit ==
    /\ task_type \in {"retrieval_document", "retrieval_query"}
    /\ embed_text \in EmbedTexts
    /\ max_retries \in 0..MaxRetries
    /\ api_key \in BOOLEAN
    /\ attempt = 0
    /\ embedding = NotReturned
    /\ provider_calls = 0
    /\ provider_raised = <<>>
    /\ sleeps = <<>>

\* if not text or not text.strip(): return None
EmptyText ==
    /\ embedding = NotReturned
    /\ Strip(embed_text) = <<>>
    /\ embedding' = None
    /\ UNCHANGED <<task_type, embed_text, max_retries, api_key, attempt,
                   provider_calls, provider_raised, sleeps>>

\* the body of `for attempt in range(max_retries)` is entered
InAttempt ==
    /\ embedding = NotReturned
    /\ Strip(embed_text) # <<>>
    /\ attempt < max_retries

\* if not api_key: return None
NoApiKey ==
    /\ InAttempt
    /\ ~api_key
    /\ embedding' = None
    /\ UNCHANGED <<task_type, embed_text, max_retries, api_key, attempt,
                   provider_calls, provider_raised, sleeps>>

\* genai.embed_content returns: return result['embedding']
Embedded ==
    /\ InAttempt
    /\ api_key
    /\ provider_calls' = provider_calls + 1
    /\ embedding' = Embedding
    /\ UNCHANGED <<task_type, embed_text, max_retries, api_key, attempt,
                   provider_raised, sleeps>>

\* genai.embed_content raises e and the message is taken for a rate limit:
\* before the last attempt, sleep and go on; at the last attempt, return None
RateLimited(e, jitter) ==
    /\ InAttempt
    /\ api_key
    /\ IsRateLimit(e)
    /\ provider_calls' = provider_calls + 1
    /\ provider_raised' = Append(provider_raised, e)
    /\ IF attempt < max_retries - 1
       THEN /\ sleeps' = Append(sleeps, <<Backoff(attempt), jitter>>)
            /\ attempt' = attempt + 1
            /\ UNCHANGED embedding
       ELSE /\ embedding' = None
            /\ UNCHANGED <<sleeps, attempt>>
    /\ UNCHANGED <<task_type, embed_text, max_retries, api_key>>

\* genai.embed_content raises e and the message is not taken for a rate
\* limit: return None
OtherError(e) ==
    /\ InAttempt
    /\ api_key
    /\ ~IsRateLimit(e)
    /\ provider_calls' = provider_calls + 1
    /\ provider_raised' = Append(provider_raised, e)
    /\ embedding' = None
    /\ UNCHANGED <<task_type, embed_text, max_retries, api_key, attempt, sleeps>>

\* the for loop ends without a return: return None
RetriesExhausted ==
    /\ embedding = NotReturned
    /\ Strip(embed_text) # <<>>
    /\ attempt >= max_retries
    /\ embedding' = None
    /\ UNCHANGED <<task_type, embed_text, max_retries, api_key, attempt,
                   provider_calls, provider_raised, sleeps>>

----------------------------------------------------------------------------
(* The A2A protocol (utils/a2a_protocol.py), the benchmark run and the A2A
   route working on the module-level protocol object of routes.py, and the
   web crawler agent (utils/web_crawler.py).

   A message id is a uuid4 string: the n-th A2AMessage the protocol builds is
   given the id n, and 0 stands for an id built elsewhere (an A2AMessage
   constructed directly, or the message_id a client put in its JSON).
   Handlers run one at a time: a request is served to its end before the
   next one starts. *)

\* A2AMessage.__init__
A2AMessage(message_id, sender, recipient, action, params) ==
    [message_id |-> message_id, sender |-> sender, recipient |-> recipient,
     action |-> action, params |-> params]

\* A2AProtocol.send_response with the request left in pending_requests
send_response_keeping(message_id, sender, recipient, result, error) ==
    LET response_params == [result |-> result,
                            original_message_id |-> message_id,
                            success |-> (error = ""),
                            error |-> error]
        response == A2AMessage(message_count + 1, sender, recipient,
                               "response", response_params)
    IN /\ pending_requests' = pending_requests
       /\ message_history' = Append(message_history, response)
       /\ message_count' = message_count + 1

\* A2AProtocol.send_response; error is "" where the caller passes none
send_response(message_id, sender, recipient, result, error) ==
    LET response_params == [result |-> result,
                            original_message_id |-> message_id,
                            success |-> (error = ""),
                            error |-> error]
        response == A2AMessage(message_count + 1, sender, recipient,
                               "response", response_params)
    IN /\ pending_requests' = pending_requests \ {message_id}
       /\ message_history' = Append(message_history, response)
       /\ message_count' = message_count + 1

\* A2AProtocol.send_request; the id it returns is message_count + 1
send_request(sender, recipient, action, params) ==
    LET request == A2AMessage(message_count + 1, sender, recipient, action,
                              params)
    IN /\ pending_requests' = pending_requests \cup {request.message_id}
       /\ message_history' = Append(message_history, request)
       /\ message_count' = message_count + 1

NoCrawlRequest == A2AMessage(0, "", "", "", [url |-> ""])
NoCrawlResult == [status |-> "none"]

\* the state after A2AProtocol() and before any crawl or benchmark run
A2AIdle ==
    /\ pending_requests = {}
    /\ message_history = <<>>
    /\ message_count = 0
    /\ bench_pc = "idle"
    /\ bench_left = 0
    /\ bench_ids = {}
    /\ crawl_pc = "idle"
    /\ crawl_request = NoCrawlRequest
    /\ chunks = 0
    /\ chunks_stored = 0
    /\ documents = <<>>
    /\ rows_before = 0
    /\ crawl_result = NoCrawlResult

\* no handler is in the middle of its work
Quiet == crawl_pc = "idle" /\ bench_pc # "running"

benchVars == <<bench_pc, bench_left, bench_ids>>
crawlVars == <<crawl_pc, crawl_request, chunks, chunks_stored, documents,
               rows_before, crawl_result>>

\* what a client asks the crawler for: (action, url)
CrawlAsks == {<<"crawl_url", "u_1">>, <<"crawl_url", "">>, <<"summarize", "u_1">>}

\* what a handler of /api/a2a/message can be given as message_id: an id
\* built elsewhere, or the id of a request of the history
ClientIds ==
    {0} \cup {message_history[i].message_id :
                i \in {j \in 1..Len(message_history) :
                          message_history[j].action # "response"}}

\* a client registering a request for the crawler (tests/test_web_crawler.py)
SendRequest(ask) ==
    /\ Quiet
    /\ Len(message_history) < MaxMessages
    /\ send_request("test_client", "web_crawler_agent", ask[1], [url |-> ask[2]])
    /\ UNCHANGED <<benchVars, crawlVars>>

\* routes.py handle_a2a_message: the message is built from the client's JSON,
\* message_id included
HandleA2AMessage(message_id, action) ==
    /\ Quiet
    /\ Len(message_history) < MaxMessages
    /\ IF action = "chat_request"
       THEN send_response(message_id, "chat_agent", "client", a_2, "")
       ELSE send_response(message_id, "chat_agent", "client", "None",
                          "Unknown action")
    /\ UNCHANGED <<benchVars, crawlVars>>

\* run_benchmark_sync / run_benchmark_suite up to the loop: n active test
\* cases are loaded
BenchmarkStart(n) ==
    /\ Quiet
    /\ Len(message_history) + n <= MaxMessages
    /\ bench_ids' = {}
    /\ bench_left' = n
    /\ bench_pc' = IF n = 0 THEN "done" ELSE "running"
    /\ UNCHANGED <<pending_requests, message_history, message_count, crawlVars>>

\* one pass of the loop over test_cases: the request is sent, the model is
\* asked directly, the answer is evaluated and stored; `raised` when one of
\* the calls after send_request raises and ends the run
BenchmarkTest(raised) ==
    /\ bench_pc = "running"
    /\ send_request("evaluation_agent", "chat_agent", "chat_request",
                    [url |-> ""])
    /\ bench_ids' = bench_ids \cup {message_count + 1}
    /\ bench_left' = bench_left - 1
    /\ bench_pc' = IF raised THEN "failed"
                   ELSE IF bench_left = 1 THEN "done" ELSE "running"
    /\ UNCHANGED crawlVars

\* the requests handle_a2a_request can be given: one registered with
\* send_request and still pending, or an A2AMessage built directly
CrawlMessages ==
    {message_history[i] : i \in {j \in 1..Len(message_history) :
        /\ message_history[j].recipient = "web_crawler_agent"
        /\ message_history[j].message_id \in pending_requests}}
    \cup {A2AMessage(0, "orchestrator", "web_crawler_agent", ask[1],
                     [url |-> ask[2]]) : ask \in CrawlAsks}

CrawlError(u, e) == [url |-> u, error |-> e, status |-> "error"]

\* WebCrawlerAgent.handle_a2a_request up to the store loop of _crawl_url:
\* the action and the url are checked, the page is fetched (`fetched`) and
\* cut into n chunks
CrawlRequest(m, fetched, n) ==
    /\ Quiet
    /\ Len(message_history) < MaxMessages
    /\ fetched => Len(documents) + n <= MaxRows
    /\ UNCHANGED <<documents, benchVars, chunks_stored>>
    /\ IF m.action # "crawl_url" \/ m.params.url = ""
       THEN UNCHANGED rows_before
       ELSE rows_before' = Len(documents)
    /\ IF m.action # "crawl_url"
       THEN /\ send_response(m.message_id, "web_crawler_agent", m.sender,
                             "None", "Unknown action")
            /\ UNCHANGED <<crawl_pc, crawl_request, chunks, crawl_result>>
       ELSE IF m.params.url = ""
       THEN /\ send_response(m.message_id, "web_crawler_agent", m.sender,
                             "None", "No URL provided")
            /\ UNCHANGED <<crawl_pc, crawl_request, chunks, crawl_result>>
       ELSE IF ~fetched
       THEN /\ crawl_result' = CrawlError(m.params.url, "Request timeout")
            /\ send_response(m.message_id, "web_crawler_agent", m.sender,
                             crawl_result', "")
            /\ UNCHANGED <<crawl_pc, crawl_request, chunks>>
       ELSE /\ crawl_pc' = "store"
            /\ crawl_request' = m
            /\ chunks' = n
            /\ crawl_result' = NoCrawlResult
            /\ UNCHANGED <<pending_requests, message_history, message_count>>

\* one pass of the loop over chunks: the embedding is made (or is None) and
\* insertRows inserts and commits the row
StoreChunk ==
    /\ crawl_pc = "store"
    /\ chunks_stored < chunks
    /\ documents' = Append(documents, [url |-> crawl_request.params.url,
                                       chunk_index |-> chunks_stored])
    /\ chunks_stored' = chunks_stored + 1
    /\ UNCHANGED <<pending_requests, message_history, message_count,
                   benchVars, crawl_pc, crawl_request, chunks, rows_before,
                   crawl_result>>

\* generate_embedding or insertRows raises inside the loop: the except
\* branches of _crawl_url build the error result, which is sent back
CrawlFails ==
    /\ crawl_pc = "store"
    /\ chunks_stored < chunks
    /\ crawl_result' = CrawlError(crawl_request.params.url, "insert failed")
    /\ send_response(crawl_request.message_id, "web_crawler_agent",
                     crawl_request.sender, crawl_result', "")
    /\ crawl_pc' = "idle"
    /\ crawl_request' = NoCrawlRequest
    /\ chunks' = 0
    /\ chunks_stored' = 0
    /\ UNCHANGED <<benchVars, documents, rows_before>>

\* the loop has ended: the success result is built and sent back
CrawlSucceeds ==
    /\ crawl_pc = "store"
    /\ chunks_stored = chunks
    /\ crawl_result' = [url |-> crawl_request.params.url, title |-> "t",
                        chunks_created |-> chunks, status |-> "success"]
    /\ send_response(crawl_request.message_id, "web_crawler_agent",
                     crawl_request.sender, crawl_result', "")
    /\ crawl_pc' = "idle"
    /\ crawl_request' = NoCrawlRequest
    /\ chunks' = 0
    /\ chunks_stored' = 0
    /\ UNCHANGED <<benchVars, documents, rows_before>>

----------------------------------------------------------------------------
(* Specifications *)

Init == ReactInit /\ ChatInit /\ RiskIdle /\ HistoryStored /\ PlanIdle /\ ParseIdle /\ EmbedIdle /\ A2AIdle

Next ==
    \/ (LLMError /\ UNCHANGED exceptReact)
    \/ (\E r \in Responses : RejectFinalAnswer(r)) /\ UNCHANGED exceptReact
    \/ (\E r \in Responses : ValidateFinalAnswer(r)) /\ UNCHANGED exceptReact
    \/ (\E r \in Responses : NoValidAction(r)) /\ UNCHANGED exceptReact
    \/ (\E r \in Responses, o \in Outcomes : SemanticSearch(r, o)) /\ UNCHANGED exceptReact
    \/ (\E r \in Responses, o \in Outcomes : SqlQuery(r, o)) /\ UNCHANGED exceptReact
    \/ (\E r \in Responses : CrawlWebNoUrl(r)) /\ UNCHANGED exceptReact
    \/ (\E r \in Responses, o \in Outcomes : CrawlWeb(r, o)) /\ UNCHANGED exceptReact
    \/ (\E r \in Responses : UnknownAction(r)) /\ UNCHANGED exceptReact
    \/ (MaxIterationsReached /\ UNCHANGED exceptReact)

\* one run of the ReAct loop
Spec == Init /\ [][Next]_vars

\* the same run, in which every call of the loop returns and the loop goes on
FairSpec == Spec /\ WF_vars(Next)

ChatSpecInit == ReactInit /\ ChatInit /\ RiskIdle /\ HistoryIdle /\ PlanIdle /\ ParseIdle /\ EmbedIdle /\ A2AIdle

ChatNext ==
    \/ (\E raw \in ChatMessages : ConfirmPending(raw)) /\ UNCHANGED exceptChat
    \/ (\E raw \in ChatMessages : CancelPending(raw)) /\ UNCHANGED exceptChat
    \/ (\E raw \in ChatMessages : InvalidConfirmation(raw)) /\ UNCHANGED exceptChat
    \/ (\E raw \in ChatMessages : RequireConfirmation(raw)) /\ UNCHANGED exceptChat
    \/ (\E raw \in ChatMessages : ProcessMessage(raw)) /\ UNCHANGED exceptChat

\* one session sending requests to /chat/ai
ChatSpec == ChatSpecInit /\ [][ChatNext]_vars

RiskSpecInit == ReactInit /\ ChatInit /\ RiskInit /\ HistoryIdle /\ PlanIdle /\ ParseIdle /\ EmbedIdle /\ A2AIdle

RiskNext ==
    \/ (Assess /\ UNCHANGED exceptRisk)
    \/ (NextMessage /\ UNCHANGED exceptRisk)

\* assess_message_risk applied to one message after another
RiskSpec == RiskSpecInit /\ [][RiskNext]_vars

HistorySpecInit == ReactInit /\ ChatInit /\ RiskIdle /\ HistoryInit /\ PlanIdle /\ ParseIdle /\ EmbedIdle /\ A2AIdle

HistoryNext ==
    \/ (\E m \in UserTexts, r \in ReplyTexts, b \in BOOLEAN : ChatTurn(m, r, b)) /\ UNCHANGED exceptHist
    \/ (\E m \in UserTexts : FailedTurn(m)) /\ UNCHANGED exceptHist
    \/ (\E m \in UserTexts : RaisingTurn(m)) /\ UNCHANGED exceptHist

\* one session calling handle_ai_chat_request turn after turn
HistorySpec == HistorySpecInit /\ [][HistoryNext]_vars

PlanSpecInit == ReactInit /\ ChatInit /\ RiskIdle /\ HistoryIdle /\ PlanIdle /\ ParseIdle /\ EmbedIdle /\ A2AIdle

PlanNext ==
    \/ (\E p \in Plans : PlanningCall(p)) /\ UNCHANGED exceptPlan
    \/ (PlanningFails /\ UNCHANGED exceptPlan)
    \/ (PlanRead /\ UNCHANGED exceptPlan)
    \/ (PlanNotAList /\ UNCHANGED exceptPlan)
    \/ (PlanHasNoLength /\ UNCHANGED exceptPlan)
    \/ (InvalidCall /\ UNCHANGED exceptPlan)
    \/ (ElementRaises /\ UNCHANGED exceptPlan)
    \/ (\E f \in BOOLEAN : SetupRaises(f)) /\ UNCHANGED exceptPlan
    \/ (\E d \in GetLLMRoles, o \in DatabaseOperations : DatabaseExpert(d, a_2, o)) /\ UNCHANGED exceptPlan
    \/ (\E d \in GetLLMRoles : ContentExpert(d, a_2)) /\ UNCHANGED exceptPlan
    \/ (\E d \in GetLLMRoles : ExpertFails(d)) /\ UNCHANGED exceptPlan
    \/ (\E d \in GetLLMRoles : ExpertReturnsTuple(d)) /\ UNCHANGED exceptPlan
    \/ (\E r \in {SuccessResult(<<"a","1">>), FailureResult} : Synthesize(r)) /\ UNCHANGED exceptPlan
    \/ (SynthesisSetupRaises /\ UNCHANGED exceptPlan)

\* one plan-execute run
PlanSpec == PlanSpecInit /\ [][PlanNext]_vars

ParseSpecInit == ReactInit /\ ChatInit /\ RiskIdle /\ HistoryIdle /\ PlanIdle /\ ParseInit /\ EmbedIdle /\ A2AIdle

ParseNext ==
    \/ (Parse /\ UNCHANGED exceptParse)
    \/ (ParseAgain /\ UNCHANGED exceptParse)
    \/ (NextText /\ UNCHANGED exceptParse)

\* response texts read one after the other
ParseSpec == ParseSpecInit /\ [][ParseNext]_vars

EmbedSpecInit == ReactInit /\ ChatInit /\ RiskIdle /\ HistoryIdle /\ PlanIdle /\ ParseIdle /\ EmbedInit /\ A2AIdle

EmbedNext ==
    \/ (EmptyText /\ UNCHANGED exceptEmbed)
    \/ (NoApiKey /\ UNCHANGED exceptEmbed)
    \/ (Embedded /\ UNCHANGED exceptEmbed)
    \/ (\E e \in ProviderErrors, j \in {0, 1} : RateLimited(e, j)) /\ UNCHANGED exceptEmbed
    \/ (\E e \in ProviderErrors : OtherError(e)) /\ UNCHANGED exceptEmbed
    \/ (RetriesExhausted /\ UNCHANGED exceptEmbed)

\* one call of generate_embedding or generate_query_embedding
EmbedSpec == EmbedSpecInit /\ [][EmbedNext]_vars

\* the same call, in which the provider and the sleeps return
FairEmbedSpec == EmbedSpec /\ WF_vars(EmbedNext)

A2ASpecInit == ReactInit /\ ChatInit /\ RiskIdle /\ HistoryIdle /\ PlanIdle /\ ParseIdle /\ EmbedIdle /\ A2AIdle

A2ANext ==
    \/ (\E ask \in CrawlAsks : SendRequest(ask)) /\ UNCHANGED exceptA2A
    \/ (\E id \in ClientIds, action \in {"chat_request", "evaluate"} :
            HandleA2AMessage(id, action)) /\ UNCHANGED exceptA2A
    \/ (\E n \in 0..MaxTests : BenchmarkStart(n)) /\ UNCHANGED exceptA2A
    \/ (\E raised \in BOOLEAN : BenchmarkTest(raised)) /\ UNCHANGED exceptA2A
    \/ (\E m \in CrawlMessages, fetched \in BOOLEAN, n \in 0..MaxRows :
            CrawlRequest(m, fetched, n)) /\ UNCHANGED exceptA2A
    \/ (StoreChunk /\ UNCHANGED exceptA2A)
    \/ (CrawlFails /\ UNCHANGED exceptA2A)
    \/ (CrawlSucceeds /\ UNCHANGED exceptA2A)

\* the protocol object of one server process and the handlers working on it
A2ASpec == A2ASpecInit /\ [][A2ANext]_vars

----------------------------------------------------------------------------
(* Properties of the ReAct loop (checked under Spec) *)

ToolNames == {"semantic_search", "sql_query", "crawl_web"}

\* a response with the Final Answer marker was handled by this step
FinalArrives == llm_calls' = llm_calls + 1 /\ last_resp'.final

\* C1: the run never returns success=True while no tool has been executed:
\* a Final Answer that arrives while tools_executed is empty is rejected
\* (one corrective observation, one iteration consumed, the loop goes on,
\* nothing is broadcast); an accepted answer is never the first response
\* and is preceded in the run by a tool action.
C1_FinalAnswerNeedsTool ==
    /\ []((pc = "done" /\ ret.success) =>
            /\ tools_executed # <<>>
            /\ \E i \in 1..Len(observations) : observations[i].src \in ToolNames
            /\ llm_calls >= 2
            /\ ret.iterations >= 2)
    /\ [][(FinalArrives /\ tools_executed = <<>>) =>
            /\ observations' = Append(observations, ObsMustExecuteTool)
            /\ iteration' = iteration + 1
            /\ pc' = "loop"
            /\ ~ret'.returned
            /\ emitted' = emitted]_vars

\* a Final Answer was rejected for want of a tool, and a later one accepted
C1_Witness ==
    /\ pc = "done"
    /\ ret.success
    /\ \E i \in 1..Len(observations) : observations[i] = ObsMustExecuteTool

\* C2: a Final Answer that matches a template-placeholder pattern is never
\* returned with success=True and never broadcast, also after a tool has
\* been executed.
C2_PlaceholderRejected ==
    (pc = "done" /\ ret.success) =>
        /\ PatternHits[ret.answer] = 0
        /\ \A i \in 1..Len(emitted) : PatternHits[emitted[i]] = 0

\* C3: one run makes at most MAX_ITERATIONS calls to the model client.
C3_AtMostMaxCalls == llm_calls <= MAX_ITERATIONS

\* a run that made MAX_ITERATIONS calls and returned
C3_Witness == pc = "done" /\ llm_calls = MAX_ITERATIONS

\* the run returned Exhausted after exactly MAX_ITERATIONS calls
ExhaustedAtMax ==
    /\ pc = "done"
    /\ ~ret.success
    /\ llm_calls = MAX_ITERATIONS
    /\ iteration = MAX_ITERATIONS
    /\ ret.iterations = MAX_ITERATIONS

\* C4: when every model call succeeds and no response carries a Final
\* Answer, every call consumes exactly one iteration, and the run
\* terminates: it returns success=false with iterations = MAX_ITERATIONS
\* after exactly MAX_ITERATIONS calls (checked under FairSpec).
C4_ExhaustedAfterMax ==
    /\ []((ret.kind # "llm_error" /\ ~final_seen) =>
            /\ iteration = llm_calls
            /\ Len(observations) = iteration
            /\ (pc = "done" => ExhaustedAtMax))
    /\ <>(ret.kind = "llm_error" \/ final_seen \/ ExhaustedAtMax)

\* an exhausted run whose responses were actions, unknown actions and text
C4_Witness ==
    /\ pc = "done"
    /\ ret.kind = "inconclusive"
    /\ ~final_seen
    /\ \E i \in 1..Len(observations) : observations[i] = ObsNoValidAction
    /\ \E i \in 1..Len(observations) : observations[i] = ObsUnknownAction

\* C5: a run ends with success=True only if some tool execution of the run
\* succeeded.
C5_AcceptedOnlyAfterSuccessfulTool ==
    (pc = "done" /\ ret.success) => tool_ok > 0

\* C6: the transcript holds at most MAX_ITERATIONS observations and the
\* iteration counter is at most MAX_ITERATIONS.
C6_TranscriptBounded ==
    /\ Len(observations) <= MAX_ITERATIONS
    /\ iteration <= MAX_ITERATIONS

\* the model call of this step failed
LLMCallFails == llm_calls' = llm_calls + 1 /\ last_resp' = FailedResponse

\* C18: a failed model call, at whatever iteration, makes the run return
\* success=False in that very step; nothing has been or is broadcast, and
\* after it there is no further model call, no tool execution and no new
\* observation.
C18_LLMFailureIsTerminal ==
    /\ [][LLMCallFails =>
            /\ pc' = "done"
            /\ ret'.returned
            /\ ~ret'.success
            /\ ret'.kind = "llm_error"
            /\ emitted' = <<>>
            /\ UNCHANGED <<tools_executed, tool_ok, observations, iteration>>]_vars
    /\ [][last_resp = FailedResponse =>
            UNCHANGED <<llm_calls, tools_executed, tool_ok, observations,
                        operation_trace, emitted, ret>>]_vars

\* the model call failed after a tool had already been executed
C18_Witness ==
    /\ pc = "done"
    /\ last_resp = FailedResponse
    /\ ret.kind = "llm_error"
    /\ llm_calls >= 2
    /\ tools_executed # <<>>

\* the response handled by this step names one of the three tools
ToolActionArrives ==
    /\ llm_calls' = llm_calls + 1
    /\ ~last_resp'.final
    /\ last_resp'.action \in ToolNames

C20_MessageBySuccessfulTool ==
    (pc = "done" /\ ret.kind \in {"not_found", "inconclusive"}) =>
        /\ ~ret.success
        /\ (ret.kind = "not_found" <=> tool_ok = 0)
        /\ (ret.kind = "inconclusive" <=> tool_ok > 0)

----------------------------------------------------------------------------
(* Properties of the risk gate (checked under ChatSpec) *)

AffirmativeTokens == {<<"y","e","s">>, <<"y">>, <<"o","k">>, <<"s","u","r","e">>}
NegativeTokens    == {<<"n","o">>, <<"n">>, <<"c","a","n","c","e","l">>}
DangerWords ==
    { <<"d","e","l","e","t","e">>,
       <<"r","e","m","o","v","e">>,
       <<"c","l","e","a","r">>,
       <<"d","r","o","p">>,
       <<"d","e","s","t","r","o","y">>,
       <<"t","r","u","n","c","a","t","e">> }

\* the message is rated high: its lower-cased text holds a danger word
RatedHigh(m) == \E kw \in DangerWords : Contains(Lower(m), kw)

\* this step handles one request; last_req' tells which
RequestHandled == requests' = requests + 1

RunStarted == Len(orch_runs') = Len(orch_runs) + 1

NewRun == orch_runs'[Len(orch_runs')]

\* a run on a text rated high starts only in a step that takes an
\* affirmative reply while that text is the outstanding PendingAction
HighRunsNeedConfirmation ==
    (RunStarted /\ RatedHigh(NewRun.message)) =>
        /\ HasPending(session)
        /\ PendingMessage(session) = NewRun.message
        /\ Lower(last_req'.message) \in AffirmativeTokens
        /\ ~HasPending(session')

\* C7: a request that carries a message rated high never starts a run;
\* when assess_message_risk rates the message of a request high, the request
\* stores that message as the PendingAction and is answered with the
\* confirmation prompt; a run on such a message starts only with an
\* affirmative reply received while it is the outstanding PendingAction.
C7_HighRiskNeedsConfirmation ==
    /\ [][(RequestHandled /\ RatedHigh(last_req'.message)) =>
            /\ orch_runs' = orch_runs
            /\ last_req'.assessed =>
                  /\ session' = {<<"pending_action", last_req'.message>>}
                  /\ http_response' = "confirm_prompt"]_vars
    /\ [][HighRunsNeedConfirmation]_vars

\* a high-risk message was stored, confirmed and then run
C7_Witness ==
    /\ last_req.branch = "confirmed"
    /\ \E i \in 1..Len(orch_runs) :
          /\ RatedHigh(orch_runs[i].message)
          /\ orch_runs[i].pid > 0

\* C8: while a PendingAction is outstanding, a reply that is neither an
\* affirmative nor a negative token is answered with the yes/no request,
\* leaves the session as it is (same PendingAction, same text), starts no
\* run, and is neither risk-assessed nor processed.
C8_OtherReplyKeepsPending ==
    [][(/\ RequestHandled
        /\ HasPending(session)
        /\ Lower(last_req'.message) \notin AffirmativeTokens \cup NegativeTokens) =>
            /\ http_response' = "please_respond"
            /\ session' = session
            /\ orch_runs' = orch_runs
            /\ ~last_req'.assessed
            /\ last_req'.branch = "invalid"]_vars

\* a high-risk text sent as a reply to an outstanding PendingAction
C8_Witness ==
    /\ last_req.branch = "invalid"
    /\ RatedHigh(last_req.message)
    /\ HasPending(session)
    /\ PendingMessage(session) # last_req.message

\* C9: a negative reply to an outstanding PendingAction clears it and is
\* answered 'Action cancelled.' without starting a run; no run ever comes
\* from a cancelled PendingAction; and a request that finds no PendingAction
\* is risk-assessed as a new message.
C9_CancelClearsPending ==
    /\ [][(/\ RequestHandled
           /\ HasPending(session)
           /\ Lower(last_req'.message) \in NegativeTokens) =>
              /\ session' = {}
              /\ http_response' = "action_cancelled"
              /\ orch_runs' = orch_runs
              /\ pending_id \in cancelled']_vars
    /\ [](\A i \in 1..Len(orch_runs) : orch_runs[i].pid \notin cancelled)
    /\ [][(RequestHandled /\ ~HasPending(session)) => last_req'.assessed]_vars

\* after a cancellation the session sent a new message, which was assessed
C9_Witness ==
    /\ cancelled # {}
    /\ last_req.assessed
    /\ last_req.branch = "stored"
    /\ orch_runs = <<>>

----------------------------------------------------------------------------
(* Properties of assess_message_risk (checked under RiskSpec) *)

\* the danger words that occur in the lower-cased text
Hits(m) == {kw \in DangerWords : Contains(Lower(m), kw)}

Elements(l) == {l[i] : i \in 1..Len(l)}

\* C10: risk_level is 'high' exactly when the lower-cased message holds one
\* of the six keywords and 'low' otherwise; keywords_found lists exactly the
\* matched keywords, each once; the result is the same for the message in
\* lower case and with the case of every letter swapped.
C10_RiskIsKeywordMatch ==
    risk_result # NoResult =>
        /\ risk_result.risk_level = (IF Hits(risk_input) # {} THEN "high" ELSE "low")
        /\ Elements(risk_result.keywords_found) = Hits(risk_input)
        /\ Len(risk_result.keywords_found) = Cardinality(Hits(risk_input))
        /\ assess_message_risk(Lower(risk_input)) = risk_result
        /\ assess_message_risk(SwapCase(risk_input)) = risk_result

\* a message with upper-case letters that matches two keywords
C10_Witness ==
    /\ risk_result.risk_level = "high"
    /\ Len(risk_result.keywords_found) = 2
    /\ risk_input # Lower(risk_input)

----------------------------------------------------------------------------
(* Properties of the conversation history (checked under HistorySpec) *)

\* the last n elements of l (all of l when it has fewer)
LastOf(l, n) == SubSeq(l, IF Len(l) > n THEN Len(l) - n + 1 ELSE 1, Len(l))

\* number of successful turns so far
SuccessfulTurns == Len(conversation) \div 2

\* C11: with a maximum of N >= 1 exchanges, after a successful turn that is
\* at least the N-th, the stored history is exactly the last N
\* user+assistant pairs, 2N messages (N = 1, three turns: the third user
\* message and the third reply).
C11_LastExchangesKept ==
    (chat_result.success /\ max_history >= 1
                         /\ SuccessfulTurns >= max_history) =>
        /\ Len(chat_history) = 2 * max_history
        /\ chat_history = LastOf(conversation, 2 * max_history)

\* C12: after every successful turn the stored history has at most
\* max_history messages, for every maximum from 0 on, and it is a suffix of
\* the whole conversation.
C12_HistoryBounded ==
    chat_result.success =>
        /\ Len(chat_history) <= max_history
        /\ chat_history = LastOf(conversation, Len(chat_history))

----------------------------------------------------------------------------
(* Properties of the plan-execute run (checked under PlanSpec) *)

\* plans in which no invocation can be read
UnparseablePlans == {plan_prose, plan_empty_list, plan_string, plan_number,
                     plan_list_text, plan_list_number}

\* C13: a plan in which no invocation can be read ends the run with a
\* structured failure (success=False), without any expert call and without
\* a synthesis call.
C13_UnparseablePlanFails ==
    orchestrator_response \in UnparseablePlans =>
        /\ expert_calls = <<>>
        /\ synthesis_calls = 0
        /\ plan_pc = "done" => (~plan_ret.success /\ plan_ret.error # "none")

\* C14: a run that ends on a malformed plan entry has executed nothing: no
\* expert model call, no database operation, no fetch or overwrite of the
\* role table, wherever in the plan the malformed entry stands.
C14_NoPartialExecution ==
    (plan_pc = "done" /\ plan_ret.error = "invalid_call") =>
        /\ ~plan_ret.success
        /\ expert_calls = <<>>
        /\ db_operations = 0
        /\ role_fetches = 0
        /\ LLM_ROLES = "defaults"
        /\ results = <<>>
        /\ synthesis_calls = 0

\* the sub-result at position i belongs to the i-th element of the plan
SubResultOf(r, i) ==
    \/ /\ r.role = t_unknown
       /\ r.message = function_calls.items[i].text
       /\ ~r.success
    \/ /\ Contains(function_calls.items[i].text, r.role)
       /\ Contains(function_calls.items[i].text, r.message)

\* C15: an exception raised while one invocation is executed is recorded as
\* one sub-result with success=False and the loop goes on with the next
\* invocation; a run that reaches the synthesis has exactly one sub-result
\* per invocation, in plan order, and the synthesis is given all of them.
C15_ExceptionIsRecorded ==
    /\ [][call_exceptions' = call_exceptions + 1 =>
            /\ Len(results') = Len(results) + 1
            /\ SubSeq(results', 1, Len(results)) = results
            /\ ~results'[Len(results')].success
            /\ call_index' = call_index + 1
            /\ plan_pc' = "loop"
            /\ ~plan_ret'.returned]_vars
    /\ [](plan_pc = "loop" => Len(results) = call_index)
    /\ [](synthesis_prompt.sent =>
            /\ Len(synthesis_prompt.results) = Len(function_calls.items)
            /\ \A i \in 1..Len(synthesis_prompt.results) :
                  SubResultOf(synthesis_prompt.results[i], i))

\* the first invocation raised, the second was executed, the synthesis ran
C15_Witness ==
    /\ plan_pc = "done"
    /\ plan_ret.success
    /\ call_exceptions = 1
    /\ Len(results) = 2
    /\ ~results[1].success
    /\ results[2].success
    /\ expert_calls # <<>>
    /\ synthesis_calls = 1

\* the invocations written in a plan, as <<role, message>>
Invocations ==
    [p \in {plan_one, plan_two, plan_paren, plan_apostrophe} |->
        CASE p = plan_one        -> <<<<role_db_read, msg_count>>>>
          [] p = plan_two        -> <<<<role_content, msg_page>>,
                                      <<role_db_write, msg_add>>>>
          [] p = plan_paren      -> <<<<role_db_read, msg_paren>>>>
          [] p = plan_apostrophe -> <<<<role_content, msg_whats>>>>]

\* a is b with some elements left out
RECURSIVE IsSubsequence(_, _)
IsSubsequence(a, b) ==
    IF a = <<>> THEN TRUE
    ELSE IF b = <<>> THEN FALSE
    ELSE IF Head(a) = Head(b) THEN IsSubsequence(Tail(a), Tail(b))
    ELSE IsSubsequence(a, Tail(b))

\* a run on plan p extracts the invocations written in p, executes them in
\* plan order, hands every sub-result to one synthesis call, and returns
\* their number
RunsAsWritten(p) ==
    LET n == Len(Invocations[p])
    IN orchestrator_response = p =>
        /\ plan_ret.error \notin {"invalid_format", "invalid_call"}
        /\ plan_pc \in {"loop", "done"} => Len(function_calls.items) = n
        /\ Len(results) <= n
        /\ \A i \in 1..Len(results) :
              \/ results[i].role = t_unknown
              \/ /\ results[i].role = Invocations[p][i][1]
                 /\ results[i].message = Invocations[p][i][2]
        /\ IsSubsequence([i \in 1..Len(expert_calls) |-> expert_calls[i][1]],
                         [i \in 1..n |-> Invocations[p][i][1]])
        /\ call_exceptions = 0 =>
              /\ Len(expert_calls) = Len(results)
              /\ \A i \in 1..Len(results) :
                    expert_calls[i][1] = Invocations[p][i][1]
        /\ synthesis_calls <= 1
        /\ synthesis_prompt.sent =>
              /\ synthesis_calls = 1
              /\ Len(results) = n
              /\ synthesis_prompt.results = results
              /\ plan_ret.success
              /\ plan_ret.orchestrator_calls = n
              /\ plan_ret.expert_results = results

C17_ProviderErrorFailsRun ==
    (plan_pc = "done" /\ provider_errors > 0) => ~plan_ret.success

----------------------------------------------------------------------------
(* Further properties of the ReAct loop (checked under Spec and FairSpec) *)

\* the response handled by this step holds the Final Answer marker and an
\* `Action:` line that names a tool
FinalAndActionArrive ==
    /\ llm_calls' = llm_calls + 1
    /\ last_resp'.final
    /\ last_resp'.action \in ToolNames

\* C21: a response that holds both an `Action:` line and the Final Answer
\* marker is handled as a final answer only: no tool is executed for it
\* (tools_executed, the operations trace and `message` stay as they were),
\* and it is either accepted (the run returns success=True with the answer)
\* or rejected with one corrective observation and one iteration consumed.
C21_FinalAnswerHasPriority ==
    [][FinalAndActionArrive =>
        /\ UNCHANGED <<tools_executed, operation_trace, tool_ok, message>>
        /\ \/ /\ pc' = "done"
              /\ ret'.success
              /\ ret'.kind = "answer"
              /\ emitted' = Append(emitted, ret'.answer)
           \/ /\ pc' = "loop"
              /\ ~ret'.returned
              /\ observations' = Append(observations, ObsMustExecuteTool)
              /\ iteration' = iteration + 1
              /\ emitted' = emitted]_vars

\* a response with both markers was accepted as the answer of the run
C21_Witness ==
    /\ pc = "done"
    /\ ret.success
    /\ last_resp.final
    /\ last_resp.action \in ToolNames

\* the response handled by this step yields no executable action: neither
\* marker, a name that is no tool, or crawl_web without a url
NoExecutableActionArrives ==
    /\ llm_calls' = llm_calls + 1
    /\ ~last_resp'.final
    /\ last_resp' # FailedResponse
    /\ \/ last_resp'.action \notin ToolNames
       \/ last_resp'.action = "crawl_web" /\ last_resp'.input # "url"

\* C22: a response that yields no executable action is recoverable: the step
\* appends exactly one observation, which states an error, adds exactly one
\* to the iteration counter, leaves the loop running and leaves
\* tools_executed, the operations trace and the count of successful tool
\* executions as they were.
C22_NoActionIsRecoverable ==
    [][NoExecutableActionArrives =>
        /\ Len(observations') = Len(observations) + 1
        /\ SubSeq(observations', 1, Len(observations)) = observations
        /\ observations'[Len(observations')].err
        /\ observations'[Len(observations')].src \notin ToolNames
        /\ iteration' = iteration + 1
        /\ pc' = "loop"
        /\ ~ret'.returned
        /\ UNCHANGED <<tools_executed, operation_trace, tool_ok, message,
                       emitted>>]_vars

\* after a tool had been executed, a crawl_web without a url and a
\* response without markers were each answered by an observation
C22_Witness ==
    /\ tools_executed # <<>>
    /\ operation_trace # <<>>
    /\ \E i, j, k \in 1..Len(observations) :
          /\ i < j
          /\ observations[i].src \in ToolNames
          /\ observations[j].src = "crawl_web_no_url"
          /\ observations[k] = ObsNoValidAction

\* C23: the prompt of every model call holds the question that was passed
\* to the run, followed by all observations appended so far, in order.
C23_PromptHoldsQuestion ==
    [][llm_calls' = llm_calls + 1 =>
        /\ prompt'.question = "question"
        /\ prompt'.observations = observations]_vars

\* the names of the tools invoked during the run, in execution order
InvokedTools ==
    LET invoked == SelectSeq(observations, LAMBDA o : o.src \in ToolNames)
    IN [i \in 1..Len(invoked) |-> invoked[i].src]

\* C24: the trace returned with an accepted Final Answer names every tool
\* invocation of the run, crawl_web included, in execution order.
C24_TraceHoldsEveryInvocation ==
    (pc = "done" /\ ret.success) =>
        [i \in 1..Len(ret.trace) |-> ret.trace[i][1]] = InvokedTools

\* the three terminal outcomes of a run
Answered  == ret.success /\ ret.kind = "answer"
Exhausted == /\ ~ret.success
             /\ ret.kind \in {"not_found", "inconclusive"}
             /\ iteration >= MAX_ITERATIONS
Failed    == ~ret.success /\ ret.kind = "llm_error"

\* C30: when every call returns, the run ends; it has then returned exactly
\* one of Answered, Exhausted and Failed, and after it there is no model
\* call, no tool execution and no further change of the run.
C30_RunTerminates ==
    /\ <>(pc = "done")
    /\ [](pc = "done" =>
            /\ ret.returned
            /\ Cardinality({o \in {"answered", "exhausted", "failed"} :
                    \/ o = "answered" /\ Answered
                    \/ o = "exhausted" /\ Exhausted
                    \/ o = "failed" /\ Failed}) = 1)
    /\ []((pc # "done") => ~ret.returned)
    /\ [][pc = "done" =>
            UNCHANGED <<pc, ret, llm_calls, tools_executed, tool_ok,
                        observations, operation_trace, iteration, emitted,
                        prompt>>]_vars

\* a run in which tools were executed ended at the cap
C30_Witness ==
    /\ pc = "done"
    /\ Exhausted
    /\ ret.kind = "inconclusive"
    /\ llm_calls >= MAX_ITERATIONS

----------------------------------------------------------------------------
(* Properties of the reading of actions (checked under ParseSpec) *)

\* C29: the two lines `Action: sql_query` / `Action Input: SELECT 1`,
\* whatever the whitespace around them and the letter case of the two
\* markers, are read as the sql_query action with the query exactly
\* "SELECT 1"; reading the same text again gives the same action.
C29_SqlActionIsRead ==
    /\ (parsed # NoParse /\ raw_response \in WellFormedTexts) =>
            /\ parsed.kind = "action"
            /\ parsed.name = <<"s","q","l","_","q","u","e","r","y">>
            /\ parsed.input = <<"S","E","L","E","C","T"," ","1">>
    /\ (parsed_again # NoParse) => (parsed_again = parsed)

\* a text with upper-case markers and whitespace on both sides was read twice
C29_Witness ==
    /\ raw_response \in WellFormedTexts
    /\ raw_response[1] = "\n"
    /\ raw_response[Len(raw_response)] = "\n"
    /\ OccursAt(raw_response, <<"A","C","T","I","O","N",":","\t">>, 2)
    /\ Contains(raw_response, <<"A","C","T","I","O","N"," ","I","N","P","U","T",":","\t">>)
    /\ parsed_again = Parsed("action", t_sql_query, t_select_1)

----------------------------------------------------------------------------
(* Further properties of the plan-execute run (checked under PlanSpec) *)

\* C28: all templated model calls of one run, the planning call and every
\* expert call, read the same role table.
C28_OneRoleSetPerRun ==
    \A i, j \in 1..Len(roles_used) : roles_used[i] = roles_used[j]

----------------------------------------------------------------------------
(* Properties of embedding generation (checked under EmbedSpec and
   FairEmbedSpec) *)

Blank(s) == \A i \in 1..Len(s) : s[i] \in {" ", "\n", "\t"}

\* C25: an exception of the provider that is not a rate limit ends the call:
\* it is the last provider call and None is returned; an empty or
\* whitespace-only text returns None without any provider call.
C25_RetryOnlyOnRateLimit ==
    /\ \A i \in 1..Len(provider_raised) :
          provider_raised[i].kind # "rate_limit" =>
              /\ i = Len(provider_raised)
              /\ provider_calls = i
              /\ embedding = None
    /\ (embedding.returned /\ Blank(embed_text)) =>
          (embedding = None /\ provider_calls = 0)

\* every provider call of the finished call failed with a rate limit
AllRateLimited ==
    /\ embedding.returned
    /\ api_key
    /\ ~Blank(embed_text)
    /\ Len(provider_raised) = provider_calls
    /\ \A i \in 1..Len(provider_raised) : provider_raised[i].kind = "rate_limit"

\* C26: the call returns, after at most max_retries provider calls; when
\* every attempt fails with a rate limit there are exactly max_retries
\* attempts, one wait between consecutive attempts (none after the last),
\* the k-th wait is 2^(k-1) plus a jitter of at most 1, and None is
\* returned.
C26_BoundedRetries ==
    /\ <>(embedding.returned)
    /\ [](provider_calls <= max_retries)
    /\ [](AllRateLimited =>
            /\ provider_calls = max_retries
            /\ embedding = None
            /\ Len(sleeps) = (IF max_retries = 0 THEN 0 ELSE max_retries - 1)
            /\ \A k \in 1..Len(sleeps) :
                  /\ sleeps[k][1] = (IF k = 1 THEN 1 ELSE 2 * sleeps[k - 1][1])
                  /\ sleeps[k][2] \in 0..1)

\* a query embedding gave up after three rate-limited attempts and two waits
C26_Witness ==
    /\ AllRateLimited
    /\ task_type = "retrieval_query"
    /\ max_retries = 3
    /\ provider_calls = 3
    /\ sleeps[2][1] = 2 * sleeps[1][1]

\* C27: generate_embedding returns a vector of EMBEDDING_DIM components for
\* every text, the empty string and a missing API key included.
C27_AlwaysAVector ==
    (task_type = "retrieval_document" /\ embedding.returned) =>
        (~embedding.none /\ embedding.dim = 768)

----------------------------------------------------------------------------
(* Properties of the ReAct run's result, statelessness and broadcast
   (checked under Spec) *)

\* C31: on success the returned iterations value is the number of model
\* calls made in the run, and lies between 2 and MAX_ITERATIONS.
C31_IterationsAreModelCalls ==
    (pc = "done" /\ ret.success) =>
        /\ ret.iterations = llm_calls
        /\ ret.iterations >= 2
        /\ ret.iterations <= 10

\* C32: every model call of the run is sent with an empty conversation
\* history, and no step of the run changes the session's stored chat
\* history, whatever the outcome.
C32_RunIsStateless ==
    /\ [][llm_calls' = llm_calls + 1 => sent_history' = <<>>]_vars
    /\ [][chat_history' = chat_history]_vars
    /\ [](chat_history = <<[role |-> "user", content |-> <<"q","1">>],
                           [role |-> "assistant", content |-> <<"a","2">>]>>)

\* a run on a session that holds a stored exchange made model calls, used a
\* tool and ended
C32_Witness ==
    /\ pc = "done"
    /\ llm_calls >= 3
    /\ tools_executed # <<>>
    /\ chat_history # <<>>
    /\ sent_history = <<>>

\* an observation that tells the model its Final Answer was not accepted
Rejections(obs) ==
    Cardinality({i \in 1..Len(obs) : obs[i].src \in {"validation", "placeholder"}})

\* C33: a run broadcasts at most once and only when it ends in Answered:
\* the accepted answer is emitted in the step that returns success; a run
\* that ends otherwise, and a step that rejects an answer, emit nothing.
C33_BroadcastOnlyAccepted ==
    /\ [](Len(emitted) <= 1)
    /\ [](emitted # <<>> => (pc = "done" /\ ret.success /\ emitted = <<ret.answer>>))
    /\ []((pc = "done" /\ ret.success) => emitted = <<ret.answer>>)
    /\ [][Rejections(observations') > Rejections(observations) =>
            emitted' = emitted]_vars

----------------------------------------------------------------------------
(* Further properties of the risk gate (checked under ChatSpec) *)

Outstanding(s) == \E e \in s : e[1] = "pending_action"

StoredText(s) == (CHOOSE e \in s : e[1] = "pending_action")[2]

\* C34: a stored PendingAction leads to at most one run, on the text that
\* was stored: it is stored from the request's own message, is never
\* replaced while outstanding, and the affirmative reply removes it in the
\* step that starts the run; an affirmative message that finds no
\* PendingAction is assessed and processed as an ordinary message.
C34_PendingRunsOnce ==
    /\ [](\A i, j \in 1..Len(orch_runs) :
            (orch_runs[i].pid > 0 /\ orch_runs[i].pid = orch_runs[j].pid) => i = j)
    /\ [][(~Outstanding(session) /\ Outstanding(session')) =>
            /\ StoredText(session') = last_req'.message
            /\ pending_id' > pending_id
            /\ \A i \in 1..Len(orch_runs) : orch_runs[i].pid < pending_id']_vars
    /\ [][(Outstanding(session) /\ Outstanding(session')) =>
            (session' = session /\ pending_id' = pending_id)]_vars
    /\ [][(RunStarted /\ NewRun.pid > 0) =>
            /\ Outstanding(session)
            /\ NewRun.pid = pending_id
            /\ NewRun.message = StoredText(session)
            /\ ~Outstanding(session')]_vars
    /\ [][(/\ RequestHandled
           /\ ~Outstanding(session)
           /\ Lower(last_req'.message) \in AffirmativeTokens) =>
              /\ last_req'.assessed
              /\ RunStarted
              /\ NewRun.pid = 0
              /\ NewRun.message = last_req'.message]_vars

\* a PendingAction was confirmed and run, and the next affirmative reply
\* was processed as a message of its own
C34_Witness ==
    \E i \in 1..Len(orch_runs) :
        /\ i < Len(orch_runs)
        /\ orch_runs[i].pid > 0
        /\ orch_runs[i].message # orch_runs[i].reply
        /\ orch_runs[i + 1].pid = 0
        /\ Lower(orch_runs[i + 1].message) \in AffirmativeTokens

----------------------------------------------------------------------------
(* Further properties of the plan-execute run (checked under PlanSpec) *)

\* C35: the sub-result of a database-role invocation whose operation was not
\* carried out (no query found in the expert's answer, or the query or code
\* failed against storage, so that the result text holds neither "SQL:" nor
\* "CODE:") is recorded with success=False.
C35_FailedOperationRecorded ==
    \A i \in 1..Len(results) :
        (results[i].role \in DatabaseRoles /\ results[i].response = "message") =>
            ~results[i].success

----------------------------------------------------------------------------
(* Properties of the A2A protocol, the benchmark run and the web crawler
   (checked under A2ASpec) *)

IsResponseTo(h, j, id) ==
    h[j].action = "response" /\ h[j].params.original_message_id = id

\* ids of the requests of history h no later response of h answers
Unanswered(h) ==
    {h[i].message_id : i \in {k \in 1..Len(h) :
        /\ h[k].action # "response"
        /\ \A j \in (k + 1)..Len(h) : ~IsResponseTo(h, j, h[k].message_id)}}

\* C36: pending_requests holds exactly the ids of the requests sent that no
\* later response answers; a response for an id that is not pending leaves
\* pending_requests unchanged; every message sent is appended to
\* message_history, so that the history holds all of them in sending order.
C36_PendingAndHistory ==
    /\ [](/\ pending_requests = Unanswered(message_history)
          /\ Len(message_history) = message_count
          /\ \A i \in 1..Len(message_history) :
                message_history[i].message_id = i)
    /\ [][/\ message_history' # message_history =>
                /\ Len(message_history') = Len(message_history) + 1
                /\ SubSeq(message_history', 1, Len(message_history))
                       = message_history
          /\ (/\ message_history' # message_history
              /\ message_history'[Len(message_history')].action = "response"
              /\ message_history'[Len(message_history')].params.original_message_id
                     \notin pending_requests)
             => pending_requests' = pending_requests
          /\ pending_requests' # pending_requests =>
                message_history' # message_history]_vars

\* while a request was pending a response for an id the protocol never gave
\* out was sent, and the request was answered after that
C36_Witness ==
    \E i, j, k \in 1..Len(message_history) :
        /\ i < j /\ j < k
        /\ message_history[i].action # "response"
        /\ IsResponseTo(message_history, j, 0)
        /\ IsResponseTo(message_history, k, message_history[i].message_id)
        /\ message_history[i].message_id \notin pending_requests

\* C37: when a benchmark run has finished, the protocol holds no pending
\* request that the run created.
C37_BenchmarkLeavesNoPending ==
    bench_pc = "done" => bench_ids \cap pending_requests = {}

\* rows the crawl in hand has inserted
RowsInserted == SubSeq(documents, rows_before + 1, Len(documents))

\* C38: a crawl reporting 'success' with chunks_created = n has inserted
\* exactly n rows for its url, with chunk indices 0..n-1, and a crawl
\* reporting 'error' has inserted none.
C38_CrawlAllOrNothing ==
    /\ crawl_result.status = "success" =>
          RowsInserted = [i \in 1..crawl_result.chunks_created |->
                             [url |-> crawl_result.url, chunk_index |-> i - 1]]
    /\ crawl_result.status = "error" => RowsInserted = <<>>

====
